---- MODULE Spec2Model ----
(***************************************************************************)
(* Spreadsheet reconciliation of the Sales view: the periodic doSync       *)
(* cycle, its merge pass over the in-memory lead collection (the setLeads  *)
(* updater) and the background persistence submissions it starts.          *)
(*                                                                         *)
(* JavaScript values are modelled as sequences of one-character strings;   *)
(* `undefined` and `null` are two distinguished values.  Objects are       *)
(* functions from their own keys to values and live in a heap, because     *)
(* the merge pass, the match indices and the arrays share them by          *)
(* reference.                                                              *)
(***************************************************************************)
EXTENDS Naturals, Sequences, FiniteSets

\* ------------------------------------------------------------------------
\* Bounds of the model
\* ------------------------------------------------------------------------

\* most rows a fetched sheet has
MaxRows == 2

\* most sync cycles (startup run plus interval ticks) that are started
MaxCycles == 2

\* ------------------------------------------------------------------------
\* JavaScript values
\* ------------------------------------------------------------------------

undefined == <<"#undefined">>

null == <<"#null">>

EmptyStr == <<>>

\* JavaScript truthiness of a string-or-undefined-or-null value
Truthy(v) == v # EmptyStr /\ v # undefined /\ v # null

\* a || b
Or(a, b) == IF Truthy(a) THEN a ELSE b

\* property read o.k (undefined for a key the object does not own)
Get(o, k) == IF k \in DOMAIN o THEN o[k] ELSE undefined

\* o with own property k set to v
Put(o, k, v) == [x \in DOMAIN o \cup {k} |-> IF x = k THEN v ELSE o[x]]

\* the letters, in both cases
UpperLetters ==
    <<"A", "B", "C", "D", "E", "F", "G", "H", "I", "J", "K", "L", "M",
      "N", "O", "P", "Q", "R", "S", "T", "U", "V", "W", "X", "Y", "Z">>

LowerLetters ==
    <<"a", "b", "c", "d", "e", "f", "g", "h", "i", "j", "k", "l", "m",
      "n", "o", "p", "q", "r", "s", "t", "u", "v", "w", "x", "y", "z">>

\* String.prototype.toLowerCase on one character
LowerChar(c) ==
    IF \E i \in DOMAIN UpperLetters : UpperLetters[i] = c
    THEN LowerLetters[CHOOSE i \in DOMAIN UpperLetters : UpperLetters[i] = c]
    ELSE c

toLowerCase(s) == [i \in DOMAIN s |-> LowerChar(s[i])]

\* \s of a JavaScript regular expression (the white space the model uses)
IsSpace(c) == c \in {" ", "\t", "\r", "\n"}

RECURSIVE trimStart(_)
trimStart(s) ==
    IF s # <<>> /\ IsSpace(Head(s)) THEN trimStart(Tail(s)) ELSE s

RECURSIVE trimEnd(_)
trimEnd(s) ==
    IF s # <<>> /\ IsSpace(s[Len(s)]) THEN trimEnd(SubSeq(s, 1, Len(s) - 1)) ELSE s

\* String.prototype.trim
trim(s) == trimEnd(trimStart(s))

\* s.replace(/\s+/g, ' '): every run of white space becomes one blank
RECURSIVE collapseSpaces(_)
collapseSpaces(s) ==
    IF s = <<>> THEN <<>>
    ELSE IF IsSpace(Head(s))
         THEN <<" ">> \o collapseSpaces(trimStart(s))
         ELSE <<Head(s)>> \o collapseSpaces(Tail(s))

\* String(n || '').trim().toLowerCase().replace(/\s+/g, ' ')
normalizeName(n) == collapseSpaces(toLowerCase(trim(Or(n, EmptyStr))))

\* Map.prototype.set
MapSet(m, k, v) == [x \in DOMAIN m \cup {k} |-> IF x = k THEN v ELSE m[x]]

\* an empty Map
EmptyMap == [x \in {} |-> 0]

\* Object.assign that clears the keys the source does not own
ObjectAssignClearing(target, source) ==
    [k \in DOMAIN target \cup DOMAIN source |->
        IF k \in DOMAIN source THEN source[k] ELSE EmptyStr]

\* Object.assign(target, source): every own key of source is copied
ObjectAssign(target, source) ==
    [k \in DOMAIN target \cup DOMAIN source |->
        IF k \in DOMAIN source THEN source[k] ELSE target[k]]

\* new Date().toISOString() at logical time n
TimeStr(n) == <<"T">> \o [i \in 1..n |-> "|"]

\* ------------------------------------------------------------------------
\* The sheet functions: parseCsv, normalizeHeader, mapSheetRowToLead
\* ------------------------------------------------------------------------

\* the characters of the string literals of the sheet functions (and of the
\* extra column the sheets of the model have)
Chars(lit) ==
    CASE lit = "name" -> <<"n", "a", "m", "e">>
      [] lit = "phone" -> <<"p", "h", "o", "n", "e">>
      [] lit = "mobile" -> <<"m", "o", "b", "i", "l", "e">>
      [] lit = "email" -> <<"e", "m", "a", "i", "l">>
      [] lit = "address" -> <<"a", "d", "d", "r", "e", "s", "s">>
      [] lit = "street" -> <<"s", "t", "r", "e", "e", "t">>
      [] lit = "location" -> <<"l", "o", "c", "a", "t", "i", "o", "n">>
      [] lit = "place" -> <<"p", "l", "a", "c", "e">>
      [] lit = "area" -> <<"a", "r", "e", "a">>
      [] lit = "city" -> <<"c", "i", "t", "y">>
      [] lit = "post" -> <<"p", "o", "s", "t">>
      [] lit = "pin" -> <<"p", "i", "n">>
      [] lit = "zip" -> <<"z", "i", "p">>
      [] lit = "pincode" -> <<"p", "i", "n", "c", "o", "d", "e">>
      [] lit = "id" -> <<"i", "d">>
      [] lit = "_id" -> <<"_", "i", "d">>
      [] lit = "source" -> <<"s", "o", "u", "r", "c", "e">>
      [] lit = "assigned" -> <<"a", "s", "s", "i", "g", "n", "e", "d">>
      [] lit = "stage" -> <<"s", "t", "a", "g", "e">>
      [] lit = "status" -> <<"s", "t", "a", "t", "u", "s">>
      [] lit = "lead_status" -> <<"l", "e", "a", "d", "_", "s", "t", "a", "t", "u", "s">>
      [] lit = "customer_name" -> <<"c", "u", "s", "t", "o", "m", "e", "r", "_", "n", "a", "m", "e">>
      [] lit = "customer_phone" -> <<"c", "u", "s", "t", "o", "m", "e", "r", "_", "p", "h", "o", "n", "e">>
      [] lit = "customer_email" -> <<"c", "u", "s", "t", "o", "m", "e", "r", "_", "e", "m", "a", "i", "l">>
      [] lit = "assigned_to" -> <<"a", "s", "s", "i", "g", "n", "e", "d", "_", "t", "o">>
      [] lit = "note" -> <<"n", "o", "t", "e">>

Literals ==
    {"name", "phone", "mobile", "email", "address", "street",
     "location", "place", "area", "city", "post", "pin",
     "zip", "pincode", "id", "_id", "source", "assigned",
     "stage", "status", "lead_status", "customer_name", "customer_phone", "customer_email",
     "assigned_to", "note"}

DigitChars == <<"0", "1", "2", "3", "4", "5", "6", "7", "8", "9">>

\* String.prototype.includes
includes(s, sub) ==
    /\ Len(sub) <= Len(s)
    /\ \E i \in 1..(Len(s) - Len(sub) + 1) : SubSeq(s, i, i + Len(sub) - 1) = sub

\* String.prototype.endsWith
endsWith(s, sub) ==
    Len(sub) <= Len(s) /\ SubSeq(s, Len(s) - Len(sub) + 1, Len(s)) = sub

\* String.prototype.startsWith
startsWith(s, sub) == Len(sub) <= Len(s) /\ SubSeq(s, 1, Len(sub)) = sub

\* s.replace(/\s+/g, '_'): every run of white space becomes one underscore
RECURSIVE underscoreSpaces(_)
underscoreSpaces(s) ==
    IF s = <<>> THEN <<>>
    ELSE IF IsSpace(Head(s))
         THEN <<"_">> \o underscoreSpaces(trimStart(s))
         ELSE <<Head(s)>> \o underscoreSpaces(Tail(s))

\* a character of [a-z0-9_]
IsTokenChar(c) ==
    \/ \E i \in DOMAIN LowerLetters : LowerLetters[i] = c
    \/ \E i \in DOMAIN DigitChars : DigitChars[i] = c
    \/ c = "_"

\* normalizeHeader without the final replace(/[^a-z0-9_]/g, '')
normalizeHeaderUnstripped(h) == underscoreSpaces(toLowerCase(trim(h)))

\* h.trim().toLowerCase().replace(/\s+/g, '_').replace(/[^a-z0-9_]/g, '')
normalizeHeader(h) ==
    SelectSeq(underscoreSpaces(toLowerCase(trim(h))), IsTokenChar)

\* csv.split(/\r?\n/), cur being the line collected so far
RECURSIVE splitLines(_, _)
splitLines(s, cur) ==
    IF s = <<>> THEN <<cur>>
    ELSE IF Head(s) = "\n" THEN <<cur>> \o splitLines(Tail(s), <<>>)
    ELSE IF Head(s) = "\r" /\ Len(s) > 1 /\ s[2] = "\n"
         THEN <<cur>> \o splitLines(Tail(Tail(s)), <<>>)
    ELSE splitLines(Tail(s), Append(cur, Head(s)))

NotBlank(l) == trim(l) # <<>>

\* the loop of parseLine without the escaped-quote branch
RECURSIVE parseLineLoopNoEscape(_, _, _, _, _)
parseLineLoopNoEscape(line, i, res, cur, inQuotes) ==
    IF i > Len(line) THEN Append(res, cur)
    ELSE IF line[i] = "\""
         THEN parseLineLoopNoEscape(line, i + 1, res, cur, ~inQuotes)
    ELSE IF line[i] = "," /\ ~inQuotes
         THEN parseLineLoopNoEscape(line, i + 1, Append(res, cur), <<>>, inQuotes)
    ELSE parseLineLoopNoEscape(line, i + 1, res, Append(cur, line[i]), inQuotes)

\* the loop of parseLine from position i (1-based), then res.push(cur)
RECURSIVE parseLineLoop(_, _, _, _, _)
parseLineLoop(line, i, res, cur, inQuotes) ==
    IF i > Len(line) THEN Append(res, cur)
    ELSE IF line[i] = "\""
         THEN IF inQuotes /\ i + 1 <= Len(line) /\ line[i + 1] = "\""
              THEN parseLineLoop(line, i + 2, res, Append(cur, "\""), inQuotes)
              ELSE parseLineLoop(line, i + 1, res, cur, ~inQuotes)
    ELSE IF line[i] = "," /\ ~inQuotes
         THEN parseLineLoop(line, i + 1, Append(res, cur), <<>>, inQuotes)
    ELSE parseLineLoop(line, i + 1, res, Append(cur, line[i]), inQuotes)

\* parseLine: the fields of one line, each trimmed
parseLine(line) ==
    LET res == parseLineLoop(line, 1, <<>>, <<>>, FALSE)
    IN  [j \in DOMAIN res |-> trim(res[j])]

\* a key that JavaScript treats as an array index (own keys of this kind are
\* enumerated first, in ascending numeric order)
IsIndexKey(k) ==
    /\ k # <<>>
    /\ \A i \in DOMAIN k : \E d \in DOMAIN DigitChars : DigitChars[d] = k[i]
    /\ Len(k) = 1 \/ k[1] # "0"

RECURSIVE NumVal(_)
NumVal(k) ==
    IF k = <<>> THEN 0
    ELSE NumVal(SubSeq(k, 1, Len(k) - 1)) * 10
            + (CHOOSE d \in DOMAIN DigitChars : DigitChars[d] = k[Len(k)]) - 1

\* an object with string keys is the sequence of its <<key, value>> entries, in
\* the order Object.entries enumerates them
HasProp(o, k) == \E i \in DOMAIN o : o[i][1] = k

\* o[k]
GetProp(o, k) ==
    IF HasProp(o, k) THEN o[CHOOSE i \in DOMAIN o : o[i][1] = k][2] ELSE undefined

\* o[k] = v
SetProp(o, k, v) ==
    IF HasProp(o, k)
    THEN [i \in DOMAIN o |-> IF o[i][1] = k THEN <<k, v>> ELSE o[i]]
    ELSE IF IsIndexKey(k)
         THEN LET before == SelectSeq(o, LAMBDA e : IsIndexKey(e[1]) /\ NumVal(e[1]) < NumVal(k))
              IN  before \o <<<<k, v>>>> \o SubSeq(o, Len(before) + 1, Len(o))
    ELSE Append(o, <<k, v>>)

\* zipRow that assigns only the columns the row has a field for
RECURSIVE zipRowUnpadded(_, _, _, _)
zipRowUnpadded(headers, row, j, obj) ==
    IF j > Len(headers) \/ j > Len(row) THEN obj
    ELSE zipRowUnpadded(headers, row, j + 1, SetProp(obj, headers[j], row[j]))

\* for (j < headers.length) obj[headers[j]] = row[j] ?? ''
RECURSIVE zipRow(_, _, _, _)
zipRow(headers, row, j, obj) ==
    IF j > Len(headers) THEN obj
    ELSE zipRow(headers, row, j + 1,
                SetProp(obj, headers[j], IF j <= Len(row) THEN row[j] ELSE EmptyStr))

\* parseCsv: the records of the lines after the first non-blank line
parseCsv(csv) ==
    LET lines == SelectSeq(splitLines(csv, <<>>), NotBlank)
    IN  IF Len(lines) = 0 THEN <<>>
        ELSE LET headers == parseLine(lines[1])
             IN  [i \in 1..(Len(lines) - 1) |->
                     zipRow(headers, parseLine(lines[i + 1]), 1, <<>>)]

\* KeepFirst that overwrites an earlier value
KeepLast(mapped, field, val) == SetProp(mapped, field, val)

\* mapped[field] = mapped[field] || val
KeepFirst(mapped, field, val) == SetProp(mapped, field, Or(GetProp(mapped, field), val))

AnyIncluded(key, lits) == \E lit \in lits : includes(key, Chars(lit))

\* mapEntry that joins a postcode into the location where it is met
mapEntryInterleaved(st, rawKey, value) ==
    LET key == normalizeHeader(rawKey)
        mapped == st.mapped
        append == SetProp(mapped, Chars("location"),
                          IF Truthy(GetProp(mapped, Chars("location")))
                          THEN GetProp(mapped, Chars("location")) \o <<",", " ">> \o value
                          ELSE value)
    IN  IF includes(key, Chars("name"))
        THEN [st EXCEPT !.mapped = KeepFirst(mapped, Chars("customer_name"), value)]
        ELSE IF AnyIncluded(key, {"phone", "mobile"})
        THEN [st EXCEPT !.mapped = KeepFirst(mapped, Chars("customer_phone"), value)]
        ELSE IF includes(key, Chars("email"))
        THEN [st EXCEPT !.mapped = KeepFirst(mapped, Chars("customer_email"), value)]
        ELSE IF AnyIncluded(key, {"address", "street", "location", "place", "area", "city",
                                  "post", "pin", "zip", "pincode"})
        THEN [st EXCEPT !.mapped = append]
        ELSE IF key = Chars("id") \/ endsWith(key, Chars("_id"))
        THEN [st EXCEPT !.mapped = SetProp(mapped, Chars("id"), value)]
        ELSE IF includes(key, Chars("source"))
        THEN [st EXCEPT !.mapped = KeepFirst(mapped, Chars("source"), value)]
        ELSE IF includes(key, Chars("assigned"))
        THEN [st EXCEPT !.mapped = KeepFirst(mapped, Chars("assigned_to"), value)]
        ELSE IF AnyIncluded(key, {"stage", "status", "lead_status"})
        THEN [st EXCEPT !.mapped = KeepFirst(mapped, Chars("status"), value)]
        ELSE [st EXCEPT !.mapped = SetProp(mapped, key, value)]

\* mapEntry that tries the source rule before the id rule
mapEntrySourceFirst(st, rawKey, value) ==
    LET key == normalizeHeader(rawKey)
        mapped == st.mapped
    IN  IF includes(key, Chars("name"))
        THEN [st EXCEPT !.mapped = KeepFirst(mapped, Chars("customer_name"), value)]
        ELSE IF AnyIncluded(key, {"phone", "mobile"})
        THEN [st EXCEPT !.mapped = KeepFirst(mapped, Chars("customer_phone"), value)]
        ELSE IF includes(key, Chars("email"))
        THEN [st EXCEPT !.mapped = KeepFirst(mapped, Chars("customer_email"), value)]
        ELSE IF AnyIncluded(key, {"address", "street", "location", "place", "area", "city"})
        THEN [st EXCEPT !.mapped =
                 SetProp(mapped, Chars("location"),
                         IF Truthy(GetProp(mapped, Chars("location")))
                         THEN GetProp(mapped, Chars("location")) \o <<",", " ">> \o value
                         ELSE value)]
        ELSE IF AnyIncluded(key, {"post", "pin", "zip", "pincode"})
        THEN [st EXCEPT !.postcode = value]
        ELSE IF includes(key, Chars("source"))
        THEN [st EXCEPT !.mapped = KeepFirst(mapped, Chars("source"), value)]
        ELSE IF key = Chars("id") \/ endsWith(key, Chars("_id"))
        THEN [st EXCEPT !.mapped = SetProp(mapped, Chars("id"), value)]
        ELSE IF includes(key, Chars("assigned"))
        THEN [st EXCEPT !.mapped = KeepFirst(mapped, Chars("assigned_to"), value)]
        ELSE IF AnyIncluded(key, {"stage", "status", "lead_status"})
        THEN [st EXCEPT !.mapped = KeepFirst(mapped, Chars("status"), value)]
        ELSE [st EXCEPT !.mapped = SetProp(mapped, key, value)]

\* the body of the loop of mapSheetRowToLead for one entry of the row; st holds
\* mapped and postcode
mapEntry(st, rawKey, value) ==
    LET key == normalizeHeader(rawKey)
        val == value
        mapped == st.mapped
    IN  IF includes(key, Chars("name"))
        THEN [st EXCEPT !.mapped = KeepFirst(mapped, Chars("customer_name"), val)]
        ELSE IF AnyIncluded(key, {"phone", "mobile"})
        THEN [st EXCEPT !.mapped = KeepFirst(mapped, Chars("customer_phone"), val)]
        ELSE IF includes(key, Chars("email"))
        THEN [st EXCEPT !.mapped = KeepFirst(mapped, Chars("customer_email"), val)]
        ELSE IF AnyIncluded(key, {"address", "street", "location", "place", "area", "city"})
        THEN [st EXCEPT !.mapped =
                 SetProp(mapped, Chars("location"),
                         IF Truthy(GetProp(mapped, Chars("location")))
                         THEN GetProp(mapped, Chars("location")) \o <<",", " ">> \o val
                         ELSE val)]
        ELSE IF AnyIncluded(key, {"post", "pin", "zip", "pincode"})
        THEN [st EXCEPT !.postcode = val]
        ELSE IF key = Chars("id") \/ endsWith(key, Chars("_id"))
        THEN [st EXCEPT !.mapped = SetProp(mapped, Chars("id"), val)]
        ELSE IF includes(key, Chars("source"))
        THEN [st EXCEPT !.mapped = KeepFirst(mapped, Chars("source"), val)]
        ELSE IF includes(key, Chars("assigned"))
        THEN [st EXCEPT !.mapped = KeepFirst(mapped, Chars("assigned_to"), val)]
        ELSE IF AnyIncluded(key, {"stage", "status", "lead_status"})
        THEN [st EXCEPT !.mapped = KeepFirst(mapped, Chars("status"), val)]
        ELSE [st EXCEPT !.mapped = SetProp(mapped, key, val)]

RECURSIVE mapEntries(_, _, _)
mapEntries(st, row, i) ==
    IF i > Len(row) THEN st
    ELSE mapEntries(mapEntry(st, row[i][1], row[i][2]), row, i + 1)

\* mapSheetRowToLead: the loop over Object.entries(row), then the postcode
mapSheetRowToLead(row) ==
    LET st == mapEntries([mapped |-> <<>>, postcode |-> undefined], row, 1)
        location == GetProp(st.mapped, Chars("location"))
    IN  IF Truthy(st.postcode)
        THEN IF Truthy(location)
             THEN SetProp(st.mapped, Chars("location"),
                          location \o <<",", " ">> \o st.postcode)
             ELSE SetProp(st.mapped, Chars("location"), st.postcode)
        ELSE st.mapped

\* ------------------------------------------------------------------------
\* The merge pass (the updater handed to setLeads by doSync)
\* ------------------------------------------------------------------------

\* current.forEach((l) => { byId.set(...); byEmail.set(...); ... }) : one lead
IndexLead(idx, l, ref) ==
    LET i1 == IF Truthy(Get(l, "id"))
              THEN [idx EXCEPT !.byId = MapSet(@, Get(l, "id"), ref)] ELSE idx
        i2 == IF Truthy(Get(l, "customer_email"))
              THEN [i1 EXCEPT !.byEmail =
                        MapSet(@, toLowerCase(Get(l, "customer_email")), ref)]
              ELSE i1
        i3 == IF Truthy(Get(l, "customer_phone"))
              THEN [i2 EXCEPT !.byPhone = MapSet(@, Get(l, "customer_phone"), ref)]
              ELSE i2
    IN  IF Truthy(Get(l, "customer_name"))
        THEN [i3 EXCEPT !.byName =
                  MapSet(@, normalizeName(Get(l, "customer_name")), ref)]
        ELSE i3

\* the four Maps built over the current collection, in collection order
RECURSIVE BuildIndex(_, _, _, _)
BuildIndex(hp, current, i, idx) ==
    IF i > Len(current) THEN idx
    ELSE BuildIndex(hp, current, i + 1, IndexLead(idx, hp[current[i]], current[i]))

EmptyIndex ==
    [byId |-> EmptyMap, byEmail |-> EmptyMap, byPhone |-> EmptyMap, byName |-> EmptyMap]

\* keys derived from a mapped row
RowEmail(s) == toLowerCase(Or(Or(Get(s, "customer_email"), Get(s, "email")), EmptyStr))

RowPhone(s) ==
    IF Truthy(Or(Or(Get(s, "customer_phone"), Get(s, "phone")), EmptyStr))
    THEN trim(Or(Get(s, "customer_phone"), Get(s, "phone")))
    ELSE EmptyStr

RowSid(s) == IF Truthy(Get(s, "id")) THEN Get(s, "id") ELSE null

RowNameNorm(s) == normalizeName(Or(Or(Get(s, "customer_name"), Get(s, "name")), EmptyStr))

\* Unidentifiable that skips only rows without any value at all
UnidentifiableIfBlank(s) == \A k \in DOMAIN s : ~Truthy(s[k])

\* the row has no meaningful identifying field
Unidentifiable(s) ==
    /\ ~Truthy(RowSid(s))
    /\ ~Truthy(RowEmail(s))
    /\ ~Truthy(RowPhone(s))
    /\ ~Truthy(RowNameNorm(s))

\* ResolveVia with the email tried before the id
ResolveViaEmailFirst(idx, s) ==
    IF Truthy(RowEmail(s)) /\ RowEmail(s) \in DOMAIN idx.byEmail THEN "email"
    ELSE IF Truthy(RowSid(s)) /\ RowSid(s) \in DOMAIN idx.byId THEN "id"
    ELSE IF Truthy(RowPhone(s)) /\ RowPhone(s) \in DOMAIN idx.byPhone THEN "phone"
    ELSE IF Truthy(RowNameNorm(s)) /\ RowNameNorm(s) \in DOMAIN idx.byName THEN "name"
    ELSE "none"

\* which key resolves the row: "id", "email", "phone", "name", or "none"
ResolveVia(idx, s) ==
    IF Truthy(RowSid(s)) /\ RowSid(s) \in DOMAIN idx.byId THEN "id"
    ELSE IF Truthy(RowEmail(s)) /\ RowEmail(s) \in DOMAIN idx.byEmail THEN "email"
    ELSE IF Truthy(RowPhone(s)) /\ RowPhone(s) \in DOMAIN idx.byPhone THEN "phone"
    ELSE IF Truthy(RowNameNorm(s)) /\ RowNameNorm(s) \in DOMAIN idx.byName THEN "name"
    ELSE "none"

\* the lead the row resolves to (a heap reference), 0 for none
Resolve(idx, s) ==
    LET via == ResolveVia(idx, s)
    IN  CASE via = "id" -> idx.byId[RowSid(s)]
          [] via = "email" -> idx.byEmail[RowEmail(s)]
          [] via = "phone" -> idx.byPhone[RowPhone(s)]
          [] via = "name" -> idx.byName[RowNameNorm(s)]
          [] OTHER -> 0

\* one optional field of the update payload
PayloadField(p, k, v) == IF Truthy(v) THEN Put(p, k, v) ELSE p

\* UpdatePayload that submits the mapped row as it is
UpdatePayloadWholeRow(s) == s

\* the allow-listed fields of the update submitted for a matched row
UpdatePayload(s) ==
    LET p1 == PayloadField(EmptyMap, "customer_name", Get(s, "customer_name"))
        p2 == PayloadField(p1, "customer_phone",
                           Or(Get(s, "customer_phone"), Get(s, "phone")))
        p3 == PayloadField(p2, "customer_email",
                           Or(Get(s, "customer_email"), Get(s, "email")))
        p4 == PayloadField(p3, "location", Get(s, "location"))
        p5 == PayloadField(p4, "source_id", Or(Get(s, "source"), Get(s, "source_id")))
        p6 == PayloadField(p5, "assigned_to", Get(s, "assigned_to"))
    IN  PayloadField(p6, "status", Get(s, "status"))

\* the minimal Lead object created for an unmatched row
NewLead(s, now) ==
    [id |-> Or(Get(s, "id"), undefined),
     customer_name |-> Or(Or(Get(s, "customer_name"), Get(s, "name")), EmptyStr),
     customer_phone |-> Or(Or(Get(s, "customer_phone"), Get(s, "phone")), EmptyStr),
     customer_email |-> Or(Or(Get(s, "customer_email"), Get(s, "email")), EmptyStr),
     location |-> Or(Get(s, "location"), EmptyStr),
     source_id |-> Or(Or(Get(s, "source"), Get(s, "source_id")), null),
     assigned_to |-> Or(Get(s, "assigned_to"), null),
     status |-> Or(Get(s, "status"), <<"n", "e", "w">>),
     created_at |-> now,
     updated_at |-> now]

\* the fields submitted for creation
InsertPayload(newLead) ==
    [customer_name |-> newLead.customer_name,
     customer_phone |-> newLead.customer_phone,
     customer_email |-> newLead.customer_email,
     location |-> newLead.location,
     source_id |-> newLead.source_id,
     assigned_to |-> newLead.assigned_to,
     status |-> newLead.status]

\* no submission
NoTask == [kind |-> "none", pass |-> 0, row |-> 0, arr |-> 0, lead |-> 0,
           id |-> undefined, payload |-> EmptyMap]

\* MergeExisting that merges the row into every lead one of its keys hits
MergeExistingEveryHit(st, s, rowNo, passNo, configured) ==
    LET ref == Resolve(st.idx, s)
        hits == {ref}
                  \cup (IF Truthy(RowEmail(s)) /\ RowEmail(s) \in DOMAIN st.idx.byEmail
                        THEN {st.idx.byEmail[RowEmail(s)]} ELSE {})
                  \cup (IF Truthy(RowPhone(s)) /\ RowPhone(s) \in DOMAIN st.idx.byPhone
                        THEN {st.idx.byPhone[RowPhone(s)]} ELSE {})
                  \cup (IF Truthy(RowNameNorm(s)) /\ RowNameNorm(s) \in DOMAIN st.idx.byName
                        THEN {st.idx.byName[RowNameNorm(s)]} ELSE {})
        merged == [r \in DOMAIN st.heap |->
                      IF r \in hits THEN ObjectAssign(st.heap[r], s) ELSE st.heap[r]]
        payload == UpdatePayload(s)
        task == IF configured /\ Truthy(Get(merged[ref], "id")) /\ DOMAIN payload # {}
                THEN [kind |-> "update", pass |-> passNo, row |-> rowNo, arr |-> 0,
                      lead |-> ref, id |-> Get(merged[ref], "id"), payload |-> payload]
                ELSE NoTask
    IN  [st EXCEPT
            !.heap = merged,
            !.tasks = IF task = NoTask THEN @ ELSE @ \cup {task},
            !.log = Append(@, [kind |-> "match", via |-> ResolveVia(st.idx, s),
                               ref |-> ref, heap |-> merged,
                               newLeads |-> st.newLeads, task |-> task])]

\* the matched-row branch: merge in place, then submit the update
MergeExisting(st, s, rowNo, passNo, configured) ==
    LET ref == Resolve(st.idx, s)
        before == st.heap[ref]
        after == ObjectAssign(before, s)
        payload == UpdatePayload(s)
        task == IF configured /\ Truthy(Get(after, "id")) /\ DOMAIN payload # {}
                THEN [kind |-> "update", pass |-> passNo, row |-> rowNo, arr |-> 0,
                      lead |-> ref, id |-> Get(after, "id"), payload |-> payload]
                ELSE NoTask
    IN  [st EXCEPT
            !.heap = [@ EXCEPT ![ref] = after],
            !.tasks = IF task = NoTask THEN @ ELSE @ \cup {task},
            !.log = Append(@, [kind |-> "match", via |-> ResolveVia(st.idx, s),
                               ref |-> ref, heap |-> [st.heap EXCEPT ![ref] = after],
                               newLeads |-> st.newLeads, task |-> task])]

\* InsertNew that appends the lead instead of prepending it
InsertNewAppended(st, s, rowNo, passNo, arrNo, now, configured) ==
    LET newLead == NewLead(s, now)
        ref == Len(st.heap) + 1
        task == IF configured
                THEN [kind |-> "insert", pass |-> passNo, row |-> rowNo, arr |-> arrNo,
                      lead |-> ref, id |-> undefined, payload |-> InsertPayload(newLead)]
                ELSE NoTask
        grown == Append(st.newLeads, ref)
    IN  [st EXCEPT
            !.heap = Append(@, newLead),
            !.newLeads = grown,
            !.idx = IF Truthy(newLead.customer_name)
                    THEN [@ EXCEPT !.byName =
                              MapSet(@, normalizeName(newLead.customer_name), ref)]
                    ELSE @,
            !.tasks = IF task = NoTask THEN @ ELSE @ \cup {task},
            !.log = Append(@, [kind |-> "new", via |-> "none",
                               ref |-> ref, heap |-> Append(st.heap, newLead),
                               newLeads |-> grown, task |-> task])]

\* InsertNew without the registration in byName
InsertNewUnregistered(st, s, rowNo, passNo, arrNo, now, configured) ==
    LET newLead == NewLead(s, now)
        ref == Len(st.heap) + 1
        task == IF configured
                THEN [kind |-> "insert", pass |-> passNo, row |-> rowNo, arr |-> arrNo,
                      lead |-> ref, id |-> undefined, payload |-> InsertPayload(newLead)]
                ELSE NoTask
        grown == <<ref>> \o st.newLeads
    IN  [st EXCEPT
            !.heap = Append(@, newLead),
            !.newLeads = grown,
            !.tasks = IF task = NoTask THEN @ ELSE @ \cup {task},
            !.log = Append(@, [kind |-> "new", via |-> "none",
                               ref |-> ref, heap |-> Append(st.heap, newLead),
                               newLeads |-> grown, task |-> task])]

\* the new-lead branch: prepend, register under the name, submit the creation
InsertNew(st, s, rowNo, passNo, arrNo, now, configured) ==
    LET newLead == NewLead(s, now)
        ref == Len(st.heap) + 1
        task == IF configured
                THEN [kind |-> "insert", pass |-> passNo, row |-> rowNo, arr |-> arrNo,
                      lead |-> ref, id |-> undefined, payload |-> InsertPayload(newLead)]
                ELSE NoTask
        grown == <<ref>> \o st.newLeads
    IN  [st EXCEPT
            !.heap = Append(@, newLead),
            !.newLeads = grown,
            !.idx = IF Truthy(newLead.customer_name)
                    THEN [@ EXCEPT !.byName =
                              MapSet(@, normalizeName(newLead.customer_name), ref)]
                    ELSE @,
            !.tasks = IF task = NoTask THEN @ ELSE @ \cup {task},
            !.log = Append(@, [kind |-> "new", via |-> "none",
                               ref |-> ref, heap |-> Append(st.heap, newLead),
                               newLeads |-> grown, task |-> task])]

\* the body of sheetLeads.forEach for one row
MergeRow(st, s, rowNo, passNo, arrNo, now, configured) ==
    IF Unidentifiable(s)
    THEN [st EXCEPT
            !.skipped = @ + 1,
            !.log = Append(@, [kind |-> "skip", via |-> "none", ref |-> 0,
                               heap |-> st.heap,
                               newLeads |-> st.newLeads, task |-> NoTask])]
    ELSE IF Resolve(st.idx, s) # 0
         THEN MergeExisting(st, s, rowNo, passNo, configured)
         ELSE InsertNew(st, s, rowNo, passNo, arrNo, now, configured)

RECURSIVE MergeRows(_, _, _, _, _, _, _)
MergeRows(st, sheetLeads, i, passNo, arrNo, now, configured) ==
    IF i > Len(sheetLeads) THEN st
    ELSE MergeRows(MergeRow(st, sheetLeads[i], i, passNo, arrNo, now, configured),
                   sheetLeads, i + 1, passNo, arrNo, now, configured)

\* the whole updater: index build, newLeads = [...current], the row loop
MergePass(hp, current, sheetLeads, passNo, arrNo, now, configured) ==
    MergeRows([heap |-> hp,
               idx |-> BuildIndex(hp, current, 1, EmptyIndex),
               newLeads |-> current,
               skipped |-> 0,
               tasks |-> {},
               log |-> <<>>],
              sheetLeads, 1, passNo, arrNo, now, configured)

\* ------------------------------------------------------------------------
\* Inputs: the leads table of the store and the published sheet
\* ------------------------------------------------------------------------

\* identifier the store assigns to its n-th created record
StoreId(n) == <<"N">> \o [i \in 1..n |-> "'"]

\* the leads table when the view is mounted, newest first
InitialTable ==
    << [id |-> <<"P", "2">>, customer_name |-> <<"A", " ", "b">>,
        customer_phone |-> EmptyStr, customer_email |-> <<"c", "@">>,
        location |-> EmptyStr, source_id |-> null, assigned_to |-> null,
        status |-> <<"n", "e", "w">>, created_at |-> TimeStr(0),
        updated_at |-> TimeStr(0)],
       [id |-> <<"P", "1">>, customer_name |-> <<"a", " ", "b">>,
        customer_phone |-> <<"1">>, customer_email |-> <<"a", "@">>,
        location |-> <<"l">>, source_id |-> null, assigned_to |-> null,
        status |-> <<"n", "e", "w">>, created_at |-> TimeStr(0),
        updated_at |-> TimeStr(0)] >>

\* the column sets of the sheets that are tried (keys of the mapped rows)
ColumnSets ==
    { {"id", "customer_email"},
      {"customer_email", "customer_phone"},
      {"customer_phone", "customer_name", "location", "source", "assigned_to",
       "status", "note"} }

\* the columns that identify a row
KeyColumns == {"id", "customer_email", "customer_phone", "customer_name"}

\* the values a key column may hold in a fetched row (fields arrive trimmed)
ColumnValues(k) ==
    CASE k = "id" -> {<<"P", "1">>, <<"X">>}
      [] k = "customer_email" -> {EmptyStr, <<"C", "@">>}
      [] k = "customer_phone" -> {EmptyStr, <<"1">>}
      [] OTHER -> {EmptyStr, <<"A", " ", " ", "b">>}

\* the value of each other column of a row that has them filled in
DetailValue(k) ==
    CASE k = "location" -> <<"l">>
      [] k = "source" -> <<"s">>
      [] k = "assigned_to" -> <<"p">>
      [] k = "status" -> <<"w", "o", "n">>
      [] OTHER -> <<"t">>

KeyValues == UNION {ColumnValues(k) : k \in KeyColumns}

\* the mapped rows over one column set: any values in the key columns, the
\* other columns filled in together or left empty together
RowsOver(cols) ==
    LET keys == cols \cap KeyColumns
        keyParts == {f \in [keys -> KeyValues] : \A k \in keys : f[k] \in ColumnValues(k)}
    IN  {[k \in cols |-> IF k \in keys THEN f[k]
                         ELSE IF filled THEN DetailValue(k) ELSE EmptyStr] :
            f \in keyParts, filled \in IF cols \subseteq KeyColumns THEN {FALSE} ELSE BOOLEAN}

\* the sheets: up to MaxRows rows, all over the same columns
Sheets ==
    UNION {UNION {[1..n -> RowsOver(cols)] : n \in 0..MaxRows} : cols \in ColumnSets}

\* ------------------------------------------------------------------------
\* State
\* ------------------------------------------------------------------------

VARIABLES
    isSupabaseConfigured,  \* the store is configured (fixed for a run)
    sheet,                 \* mapped rows the published sheet yields
    table,                 \* the leads table of the store, newest first
    nextId,                \* records the store has created so far
    heap,                  \* lead objects, addressed by reference 1..Len(heap)
    arrays,                \* the arrays built so far, each a sequence of references
    maps,                  \* the four Maps of the pass that built each array
    leads,                 \* the array that is the current value of the leads state
    loading,               \* the initial fetchData: "idle", "pending" or "done"
    mounted,               \* the mounted flag of the sync effect
    initTimeout,           \* the startup timer is still pending
    cycles,                \* doSync runs started so far
    fetching,              \* doSync runs waiting for the sheet
    pending,               \* persistence submissions not yet completed
    failed,                \* persistence submissions that failed
    lastPass,              \* record of the most recent merge pass
    updater,               \* the setLeads updater that is being run, row by row
    sheetUrl,              \* the share URL handed to fetchGoogleSheetLeads
    fetchPc,               \* where the call of fetchGoogleSheetLeads under study stands
    requested,             \* the URLs that call has requested so far, in order
    thrown,                \* the message of the error that call ended with
    cells,                 \* the field values a CSV text was generated from
    csv,                   \* the CSV text of that call
    sheetRows,             \* the records parseCsv made of it
    sheetLeads             \* the mapped rows the call returns

\* the variables of the view and of its sync cycles
syncVars == <<isSupabaseConfigured, sheet, table, nextId, heap, arrays, maps, leads,
              loading, mounted, initTimeout, cycles, fetching, pending, failed, lastPass>>

\* the variables of one call of fetchGoogleSheetLeads looked at step by step
fetchVars == <<sheetUrl, fetchPc, requested, thrown, cells, csv, sheetRows, sheetLeads>>

vars == <<isSupabaseConfigured, sheet, table, nextId, heap, arrays, maps, leads,
          loading, mounted, initTimeout, cycles, fetching, pending, failed, lastPass,
          updater, fetchVars>>

\* the URL doSync passes, cut down to its path from the /d/ segment on
SyncSheetUrl == <<"/", "d", "/", "1", "Q", "-", "t", "p", "M", "/", "e", "d", "i", "t">>

\* no call of fetchGoogleSheetLeads is looked at step by step
FetchNotTraced ==
    /\ sheetUrl = SyncSheetUrl
    /\ fetchPc = "idle"
    /\ requested = <<>>
    /\ thrown = "none"
    /\ cells = <<>>
    /\ csv = null
    /\ sheetRows = <<>>
    /\ sheetLeads = <<>>

\* no setLeads updater is being run
NotRunning ==
    [i |-> 0, no |-> 0, input |-> 0, pending0 |-> {}, failed0 |-> {},
     current |-> <<>>, heap0 |-> <<>>, rows |-> <<>>,
     st |-> [heap |-> <<>>, idx |-> EmptyIndex, newLeads |-> <<>>, skipped |-> 0,
             tasks |-> {}, log |-> <<>>]]

\* a timer callback or the continuation of an awaited call is run only when no
\* other code is running: the updater is synchronous and runs to its return
CallStackEmpty == updater = NotRunning

NoPass == [no |-> 0, prev |-> 0, input |-> 0, pending0 |-> {}, failed0 |-> {},
           current |-> <<>>, heap0 |-> <<>>, rows |-> <<>>,
           out |-> <<>>, heap1 |-> <<>>, skipped |-> 0, tasks |-> {}, log |-> <<>>]

Init ==
    /\ isSupabaseConfigured \in BOOLEAN
    /\ sheet \in Sheets
    /\ table = InitialTable
    /\ nextId = 0
    /\ heap = <<>>
    /\ arrays = << <<>> >>
    /\ maps = <<EmptyIndex>>
    /\ leads = 1
    /\ loading = IF isSupabaseConfigured THEN "pending" ELSE "idle"
    /\ mounted = TRUE
    /\ initTimeout = TRUE
    /\ cycles = 0
    /\ fetching = 0
    /\ pending = {}
    /\ failed = {}
    /\ lastPass = NoPass
    /\ updater = NotRunning
    /\ FetchNotTraced

\* ------------------------------------------------------------------------
\* Actions
\* ------------------------------------------------------------------------

\* fetchData: the select of the leads table returns its rows, newest first,
\* and setLeads(leadsData ?? []) replaces the collection by fresh objects
\* (a select that fails is the rejection of FetchDataThrows)
FetchDataDone ==
    /\ CallStackEmpty
    /\ loading = "pending"
    /\ LET leadsData == table
       IN  /\ heap' = heap \o leadsData
           /\ arrays' = Append(arrays, [i \in 1..Len(leadsData) |-> Len(heap) + i])
           /\ maps' = Append(maps, EmptyIndex)
           /\ leads' = Len(arrays) + 1
    /\ loading' = "done"
    /\ UNCHANGED <<updater, fetchVars, isSupabaseConfigured, sheet, table, nextId, mounted, initTimeout,
                   cycles, fetching, pending, failed, lastPass>>

\* fetchData: Promise.all rejects; the collection is left as it is
FetchDataThrows ==
    /\ CallStackEmpty
    /\ loading = "pending"
    /\ loading' = "done"
    /\ UNCHANGED <<updater, fetchVars, isSupabaseConfigured, sheet, table, nextId, heap, arrays, maps,
                   leads, mounted, initTimeout, cycles, fetching, pending, failed, lastPass>>

\* the startup timer fires: doSync starts and waits for the sheet
InitTimeoutFires ==
    /\ CallStackEmpty
    /\ mounted
    /\ initTimeout
    /\ cycles < MaxCycles
    /\ initTimeout' = FALSE
    /\ cycles' = cycles + 1
    /\ fetching' = fetching + 1
    /\ UNCHANGED <<updater, fetchVars, isSupabaseConfigured, sheet, table, nextId, heap, arrays, maps,
                   leads, loading, mounted, pending, failed, lastPass>>

\* an interval tick (the interval is longer than the startup delay)
IntervalTick ==
    /\ CallStackEmpty
    /\ mounted
    /\ ~initTimeout
    /\ cycles < MaxCycles
    /\ cycles' = cycles + 1
    /\ fetching' = fetching + 1
    /\ UNCHANGED <<updater, fetchVars, isSupabaseConfigured, sheet, table, nextId, heap, arrays, maps,
                   leads, loading, mounted, initTimeout, pending, failed, lastPass>>

\* SheetFetchFails of a catch that empties the leads state
SheetFetchFailsClearing ==
    /\ CallStackEmpty
    /\ fetching > 0
    /\ fetching' = fetching - 1
    /\ arrays' = Append(arrays, <<>>)
    /\ maps' = Append(maps, EmptyIndex)
    /\ leads' = Len(arrays) + 1
    /\ UNCHANGED <<updater, fetchVars, isSupabaseConfigured, sheet, table, nextId, heap,
                   loading, mounted, initTimeout, cycles, pending, failed, lastPass>>

\* fetchGoogleSheetLeads throws: the cycle ends in the catch of doSync
SheetFetchFails ==
    /\ CallStackEmpty
    /\ fetching > 0
    /\ fetching' = fetching - 1
    /\ UNCHANGED <<updater, fetchVars, isSupabaseConfigured, sheet, table, nextId, heap, arrays, maps,
                   leads, loading, mounted, initTimeout, cycles, pending, failed, lastPass>>

\* fetchGoogleSheetLeads returns after the view was torn down: doSync returns
SheetFetchIgnored ==
    /\ CallStackEmpty
    /\ fetching > 0
    /\ ~mounted \/ Len(sheet) = 0
    /\ fetching' = fetching - 1
    /\ UNCHANGED <<updater, fetchVars, isSupabaseConfigured, sheet, table, nextId, heap, arrays, maps,
                   leads, loading, mounted, initTimeout, cycles, pending, failed, lastPass>>

\* SheetFetchMerges of a doSync that does not look at the mounted flag
SheetFetchMergesUnmounted ==
    /\ CallStackEmpty
    /\ fetching > 0
    /\ Len(sheet) # 0
    /\ LET no == Len(arrays) + 1
           st == MergePass(heap, arrays[leads], sheet, no, no, TimeStr(cycles),
                           isSupabaseConfigured)
       IN  /\ heap' = st.heap
           /\ arrays' = Append(arrays, st.newLeads)
           /\ maps' = Append(maps, st.idx)
           /\ leads' = no
           /\ pending' = pending \cup st.tasks
           /\ lastPass' = [no |-> no, prev |-> lastPass.no, input |-> leads,
                           pending0 |-> pending, failed0 |-> failed,
                           current |-> arrays[leads], heap0 |-> heap,
                           rows |-> sheet, out |-> st.newLeads, heap1 |-> st.heap,
                           skipped |-> st.skipped, tasks |-> st.tasks, log |-> st.log]
    /\ fetching' = fetching - 1
    /\ UNCHANGED <<updater, fetchVars, isSupabaseConfigured, sheet, table, nextId, loading,
                   mounted, initTimeout, cycles, failed>>

\* fetchGoogleSheetLeads returns the rows and setLeads runs the merge pass
SheetFetchMerges ==
    /\ CallStackEmpty
    /\ fetching > 0
    /\ mounted /\ Len(sheet) # 0
    /\ LET no == Len(arrays) + 1
           st == MergePass(heap, arrays[leads], sheet, no, no, TimeStr(cycles),
                           isSupabaseConfigured)
       IN  /\ heap' = st.heap
           /\ arrays' = Append(arrays, st.newLeads)
           /\ maps' = Append(maps, st.idx)
           /\ leads' = no
           /\ pending' = pending \cup st.tasks
           /\ lastPass' = [no |-> no, prev |-> lastPass.no, input |-> leads,
                           pending0 |-> pending, failed0 |-> failed,
                           current |-> arrays[leads], heap0 |-> heap,
                           rows |-> sheet, out |-> st.newLeads, heap1 |-> st.heap,
                           skipped |-> st.skipped, tasks |-> st.tasks, log |-> st.log]
    /\ fetching' = fetching - 1
    /\ UNCHANGED <<updater, fetchVars, isSupabaseConfigured, sheet, table, nextId, loading, mounted,
                   initTimeout, cycles, failed>>

\* the view is torn down: the cleanup of the sync effect
Unmount ==
    /\ CallStackEmpty
    /\ mounted
    /\ mounted' = FALSE
    /\ initTimeout' = FALSE
    /\ UNCHANGED <<updater, fetchVars, isSupabaseConfigured, sheet, table, nextId, heap, arrays, maps,
                   leads, loading, cycles, fetching, pending, failed, lastPass>>

\* ContinuationRuns of a pass whose row loop waits for each submission
ContinuationRunsAtOnce == TRUE

\* the code after `await supabase...` runs when the answer is there and no
\* other code is running: never inside the synchronous updater
ContinuationRuns == CallStackEmpty

\* findIndex that answers the position the lead had when it was prepended
findIndexFront(arr, ref, i) == IF Len(arr) = 0 THEN 0 ELSE 1

\* newLeads.findIndex((l) => l === newLead); 0 when the object is not in the array
RECURSIVE findIndex(_, _, _)
findIndex(arr, ref, i) ==
    IF i > Len(arr) THEN 0
    ELSE IF arr[i] = ref THEN i
    ELSE findIndex(arr, ref, i + 1)

\* the record the store returns for a created lead
Persisted(payload, n, now) ==
    ObjectAssign(payload, [id |-> StoreId(n), created_at |-> now, updated_at |-> now])

\* update(...).eq('id', id) applied to the table
UpdateTable(tbl, id, payload) ==
    [i \in 1..Len(tbl) |-> IF tbl[i].id = id THEN ObjectAssign(tbl[i], payload) ELSE tbl[i]]

\* a creation succeeds: the placeholder is replaced in the array of its pass
\* and the Maps of that pass are refreshed
InsertDone ==
    \E task \in pending :
        /\ ContinuationRuns
        /\ task.kind = "insert"
        /\ LET persisted == Persisted(task.payload, nextId + 1, TimeStr(cycles))
               ref == Len(heap) + 1
               returned == task.arr # updater.no
               newLeads == IF returned THEN arrays[task.arr] ELSE updater.st.newLeads
               at == findIndex(newLeads, task.lead, 1)
               replaced == IF at = 0 THEN newLeads ELSE [newLeads EXCEPT ![at] = ref]
           IN  /\ heap' = Append(heap, persisted)
               /\ IF returned
                  THEN /\ arrays' = [arrays EXCEPT ![task.arr] = replaced]
                       /\ maps' = [maps EXCEPT ![task.arr] = IndexLead(@, persisted, ref)]
                       /\ UNCHANGED updater
                  ELSE /\ updater' = [updater EXCEPT
                                         !.st.newLeads = replaced,
                                         !.st.idx = IndexLead(@, persisted, ref)]
                       /\ UNCHANGED <<arrays, maps>>
               /\ table' = <<persisted>> \o table
        /\ nextId' = nextId + 1
        /\ pending' = pending \ {task}
        /\ UNCHANGED <<fetchVars, isSupabaseConfigured, sheet, leads, loading, mounted,
                       initTimeout, cycles, fetching, failed, lastPass>>

\* InsertFails that takes the placeholder out of the array of its pass
InsertFailsRollingBack ==
    \E task \in pending :
        /\ ContinuationRuns
        /\ task.kind = "insert"
        /\ pending' = pending \ {task}
        /\ failed' = failed \cup {task}
        /\ arrays' = [arrays EXCEPT ![task.arr] =
                          SelectSeq(@, LAMBDA ref : ref # task.lead)]
        /\ UNCHANGED <<updater, fetchVars, isSupabaseConfigured, sheet, table, nextId, heap, maps,
                       leads, loading, mounted, initTimeout, cycles, fetching,
                       lastPass>>

\* a creation fails (error result, thrown exception, or no record returned):
\* it is logged and reported, nothing else
InsertFails ==
    \E task \in pending :
        /\ ContinuationRuns
        /\ task.kind = "insert"
        /\ \E outcome \in {"error", "throw", "empty"} :
              /\ pending' = pending \ {task}
              /\ failed' = failed \cup {task}
        /\ UNCHANGED <<updater, fetchVars, isSupabaseConfigured, sheet, table, nextId, heap, arrays, maps,
                       leads, loading, mounted, initTimeout, cycles, fetching,
                       lastPass>>

\* an update succeeds in the store
UpdateDone ==
    \E task \in pending :
        /\ ContinuationRuns
        /\ task.kind = "update"
        /\ table' = UpdateTable(table, task.id, task.payload)
        /\ pending' = pending \ {task}
        /\ UNCHANGED <<updater, fetchVars, isSupabaseConfigured, sheet, nextId, heap, arrays, maps, leads,
                       loading, mounted, initTimeout, cycles, fetching, failed,
                       lastPass>>

\* an update fails (error result or thrown exception): logged and reported
UpdateFails ==
    \E task \in pending :
        /\ ContinuationRuns
        /\ task.kind = "update"
        /\ \E outcome \in {"error", "throw"} :
              /\ pending' = pending \ {task}
              /\ failed' = failed \cup {task}
        /\ UNCHANGED <<updater, fetchVars, isSupabaseConfigured, sheet, table, nextId, heap, arrays, maps,
                       leads, loading, mounted, initTimeout, cycles, fetching,
                       lastPass>>

Next ==
    \/ FetchDataDone
    \/ FetchDataThrows
    \/ InitTimeoutFires
    \/ IntervalTick
    \/ SheetFetchFails
    \/ SheetFetchIgnored
    \/ SheetFetchMerges
    \/ Unmount
    \/ InsertDone
    \/ InsertFails
    \/ UpdateDone
    \/ UpdateFails

Spec == Init /\ [][Next]_vars

\* ------------------------------------------------------------------------
\* fetchGoogleSheetLeads, one call at a time and step by step, within doSync
\* ------------------------------------------------------------------------

\* a character of [a-zA-Z0-9-_]
IsIdChar(c) ==
    \/ \E i \in DOMAIN UpperLetters : UpperLetters[i] = c
    \/ \E i \in DOMAIN LowerLetters : LowerLetters[i] = c
    \/ \E i \in DOMAIN DigitChars : DigitChars[i] = c
    \/ c \in {"-", "_"}

\* /\/d\/([a-zA-Z0-9-_]+)/ matches at position i
MatchesAt(url, i) ==
    /\ i + 3 <= Len(url)
    /\ SubSeq(url, i, i + 2) = <<"/", "d", "/">>
    /\ IsIdChar(url[i + 3])

\* the longest run of identifier characters from position i on (the group)
RECURSIVE idRun(_, _)
idRun(url, i) ==
    IF i <= Len(url) /\ IsIdChar(url[i]) THEN <<url[i]>> \o idRun(url, i + 1) ELSE <<>>

\* sheetIdOf that takes whatever follows the first slash
sheetIdOfFirstSegment(url) ==
    IF \E i \in DOMAIN url : url[i] = "/"
    THEN idRun(url, (CHOOSE i \in DOMAIN url :
                        url[i] = "/" /\ \A j \in 1..(i - 1) : url[j] # "/") + 1)
    ELSE null

\* const m = sheetUrl.match(...); const sheetId = m ? m[1] : null
sheetIdOf(url) ==
    IF \E i \in DOMAIN url : MatchesAt(url, i)
    THEN idRun(url, (CHOOSE i \in DOMAIN url :
                        MatchesAt(url, i) /\ \A j \in 1..(i - 1) : ~MatchesAt(url, j)) + 3)
    ELSE null

\* the share URLs that are tried
Urls ==
    {SyncSheetUrl,
     <<"/", "d", "/", "k">>,
     <<"/", "d", "/">>,
     <<"/", "e", "/", "k">>,
     <<"/", "d", "/", "/", "k">>,
     <<"x", "/", "d", "/", "!", "/", "d", "/", "k", "-", "_", "?">>}

\* the bodies an endpoint may answer with
Bodies ==
    {<<"<", "h", ">">>,
     <<"\n", " ", "<", "p">>,
     <<>>,
     <<"E", "m", "a", "i", "l">>,
     <<"E", "m", "a", "i", "l", "\n", "C", "@">>,
     <<"i", "d", ",", "E", "m", "a", "i", "l", "\r", "\n", "X", ",", "\r", "\n">>,
     <<"P", "h", "o", "n", "e", ",", "N", "a", "m", "e", "\n", "1", ",", "A", " ", " ", "b", "\n", ",", "A", " ", " ", "b", "\n">>}

\* what a request ends with: the fetch rejects, the status is not ok, or a body
Responses ==
    {[kind |-> "network", text |-> EmptyStr], [kind |-> "status", text |-> EmptyStr]}
        \cup {[kind |-> "text", text |-> b] : b \in Bodies}

NoResponse == [kind |-> "pending", text |-> EmptyStr]

pubUrl(sheetId) == [endpoint |-> "pub", sheetId |-> sheetId, response |-> NoResponse]

exportUrl(sheetId) == [endpoint |-> "export", sheetId |-> sheetId, response |-> NoResponse]

\* tryThrows that takes an HTML body for CSV
tryThrowsUnlessHtml(resp) == resp.kind # "text"

\* tryFetch throws for this response
tryThrows(resp) == resp.kind # "text" \/ startsWith(trim(resp.text), <<"<">>)

\* a mapped row as the merge pass reads it: a function of its keys (the columns
\* of the sheets that are tried map to keys among Literals)
AsRow(mapped) ==
    [k \in {lit \in Literals : HasProp(mapped, Chars(lit))} |-> GetProp(mapped, Chars(k))]

\* the catch of doSync, or its early return: no setLeads
NoSetLeads == UNCHANGED <<sheet, heap, arrays, maps, leads, pending, lastPass>>

\* setLeads(updater) of doSync for the rows fetchGoogleSheetLeads returned
SetLeads(rows) ==
    LET no == Len(arrays) + 1
        st == MergePass(heap, arrays[leads], rows, no, no, TimeStr(cycles),
                        isSupabaseConfigured)
    IN  /\ sheet' = rows
        /\ heap' = st.heap
        /\ arrays' = Append(arrays, st.newLeads)
        /\ maps' = Append(maps, st.idx)
        /\ leads' = no
        /\ pending' = pending \cup st.tasks
        /\ lastPass' = [no |-> no, prev |-> lastPass.no, input |-> leads,
                        pending0 |-> pending, failed0 |-> failed,
                        current |-> arrays[leads], heap0 |-> heap,
                        rows |-> rows, out |-> st.newLeads, heap1 |-> st.heap,
                        skipped |-> st.skipped, tasks |-> st.tasks, log |-> st.log]

\* tryFetch returned text: the rest of fetchGoogleSheetLeads, and of doSync
FetchReturns(text) ==
    IF ~Truthy(text)
    THEN /\ thrown' = "Empty CSV"
         /\ UNCHANGED <<sheetRows, sheetLeads>>
         /\ NoSetLeads
    ELSE LET rows == parseCsv(text)
             mappedRows == [i \in DOMAIN rows |-> mapSheetRowToLead(rows[i])]
         IN  /\ thrown' = "none"
             /\ sheetRows' = rows
             /\ sheetLeads' = mappedRows
             /\ IF ~mounted \/ Len(mappedRows) = 0
                THEN NoSetLeads
                ELSE SetLeads([i \in DOMAIN mappedRows |-> AsRow(mappedRows[i])])

\* a timer fires: doSync calls fetchGoogleSheetLeads, which throws for a URL
\* without sheet id and requests the published-to-web endpoint otherwise
DoSyncStarts ==
    /\ CallStackEmpty
    /\ mounted
    /\ fetchPc \in {"idle", "done"}
    /\ cycles < MaxCycles
    /\ cycles' = cycles + 1
    /\ initTimeout' = FALSE
    /\ csv' = null
    /\ sheetRows' = <<>>
    /\ sheetLeads' = <<>>
    /\ IF ~Truthy(sheetIdOf(sheetUrl))
       THEN /\ thrown' = "Invalid Google Sheet URL"
            /\ requested' = <<>>
            /\ fetchPc' = "done"
            /\ UNCHANGED fetching
       ELSE /\ thrown' = "none"
            /\ requested' = <<pubUrl(sheetIdOf(sheetUrl))>>
            /\ fetchPc' = "pub"
            /\ fetching' = fetching + 1
    /\ UNCHANGED <<updater, sheetUrl, cells, isSupabaseConfigured, sheet, table, nextId, heap,
                   arrays, maps, leads, loading, mounted, pending, failed, lastPass>>

\* the published-to-web endpoint answers: on a failure the export endpoint is
\* requested, otherwise the call returns and doSync goes on
PubResponds ==
    /\ CallStackEmpty
    /\ fetchPc = "pub"
    /\ \E resp \in Responses :
          IF tryThrows(resp)
          THEN /\ requested' = <<[requested[1] EXCEPT !.response = resp],
                                 exportUrl(requested[1].sheetId)>>
               /\ fetchPc' = "export"
               /\ UNCHANGED <<thrown, csv, sheetRows, sheetLeads, fetching>>
               /\ NoSetLeads
          ELSE /\ requested' = <<[requested[1] EXCEPT !.response = resp]>>
               /\ fetchPc' = "done"
               /\ csv' = resp.text
               /\ fetching' = fetching - 1
               /\ FetchReturns(resp.text)
    /\ UNCHANGED <<updater, sheetUrl, cells, isSupabaseConfigured, table, nextId, loading,
                   mounted, initTimeout, cycles, failed>>

\* ExportResponds of a fetcher that answers a failure with an empty list
ExportRespondsSwallowing ==
    /\ CallStackEmpty
    /\ fetchPc = "export"
    /\ \E resp \in Responses :
          /\ requested' = [requested EXCEPT ![2].response = resp]
          /\ fetchPc' = "done"
          /\ fetching' = fetching - 1
          /\ IF tryThrows(resp)
             THEN /\ UNCHANGED <<thrown, csv, sheetRows, sheetLeads>>
                  /\ NoSetLeads
             ELSE /\ csv' = resp.text
                  /\ FetchReturns(resp.text)
    /\ UNCHANGED <<updater, sheetUrl, cells, isSupabaseConfigured, table, nextId, loading,
                   mounted, initTimeout, cycles, failed>>

\* the export endpoint answers: on a failure the call throws and doSync ends
\* in its catch, otherwise the call returns and doSync goes on
ExportResponds ==
    /\ CallStackEmpty
    /\ fetchPc = "export"
    /\ \E resp \in Responses :
          /\ requested' = [requested EXCEPT ![2].response = resp]
          /\ fetchPc' = "done"
          /\ fetching' = fetching - 1
          /\ IF tryThrows(resp)
             THEN /\ thrown' = "Failed to fetch Google Sheet CSV"
                  /\ UNCHANGED <<csv, sheetRows, sheetLeads>>
                  /\ NoSetLeads
             ELSE /\ csv' = resp.text
                  /\ FetchReturns(resp.text)
    /\ UNCHANGED <<updater, sheetUrl, cells, isSupabaseConfigured, table, nextId, loading,
                   mounted, initTimeout, cycles, failed>>

\* the view is mounted and no sheet has been fetched yet
InitFetch ==
    /\ isSupabaseConfigured \in BOOLEAN
    /\ sheet = <<>>
    /\ table = InitialTable
    /\ nextId = 0
    /\ heap = <<>>
    /\ arrays = << <<>> >>
    /\ maps = <<EmptyIndex>>
    /\ leads = 1
    /\ loading = IF isSupabaseConfigured THEN "pending" ELSE "idle"
    /\ mounted = TRUE
    /\ initTimeout = TRUE
    /\ cycles = 0
    /\ fetching = 0
    /\ pending = {}
    /\ failed = {}
    /\ lastPass = NoPass
    /\ updater = NotRunning
    /\ sheetUrl \in Urls
    /\ fetchPc = "idle"
    /\ requested = <<>>
    /\ thrown = "none"
    /\ cells = <<>>
    /\ csv = null
    /\ sheetRows = <<>>
    /\ sheetLeads = <<>>

NextFetch ==
    \/ FetchDataDone
    \/ FetchDataThrows
    \/ DoSyncStarts
    \/ PubResponds
    \/ ExportResponds

\* sync cycles one after the other, each call of fetchGoogleSheetLeads in steps
SpecFetch == InitFetch /\ [][NextFetch]_vars

\* ------------------------------------------------------------------------
\* The rest of fetchGoogleSheetLeads once it has the CSV text, step by step,
\* on generated texts
\* ------------------------------------------------------------------------

\* most characters of a generated field value
MaxFieldLen == 2

\* most columns of a generated header line
MaxColumns == 2

\* most characters of a header that is tried on its own
MaxHeaderLen == 3

\* the strings of at most n characters over an alphabet
StringsOver(alphabet, n) == UNION {[1..k -> alphabet] : k \in 0..n}

RECURSIVE joinWith(_, _)
joinWith(parts, sep) ==
    IF Len(parts) = 0 THEN <<>>
    ELSE IF Len(parts) = 1 THEN parts[1]
    ELSE parts[1] \o sep \o joinWith(Tail(parts), sep)

\* a value with every double quote doubled
RECURSIVE doubleQuotes(_)
doubleQuotes(v) ==
    IF v = <<>> THEN <<>>
    ELSE IF Head(v) = "\"" THEN <<"\"", "\"">> \o doubleQuotes(Tail(v))
    ELSE <<Head(v)>> \o doubleQuotes(Tail(v))

\* a value wrapped in double quotes, its double quotes doubled
EncodeField(v) == <<"\"">> \o doubleQuotes(v) \o <<"\"">>

\* the text generated from a table by quoting every field
QuotedCsv(grid) ==
    joinWith([i \in DOMAIN grid |->
                 joinWith([j \in DOMAIN grid[i] |-> EncodeField(grid[i][j])], <<",">>)],
             <<"\n">>)

\* the text generated from a table of plain fields with a given line break
PlainCsv(grid, lineBreak) ==
    joinWith([i \in DOMAIN grid |-> joinWith(grid[i], <<",">>)], lineBreak)

LineBreaks == {<<"\n">>, <<"\r", "\n">>}

\* a header line and one row of as many values, to be quoted: the values hold
\* commas, double quotes and blanks
QuotedTables ==
    UNION {{<<hs, vs>> :
               hs \in [1..n -> {<<"h">>, <<"k">>, <<" ", "k">>}],
               vs \in [1..n -> StringsOver({"a", ",", "\"", " "}, MaxFieldLen)]} :
           n \in 1..MaxColumns}

\* lines of plain fields: a header line and up to MaxRows lines that are
\* shorter or longer than it, or blank
PlainLines(values, n) == UNION {[1..k -> values] : k \in 1..n}

PlainTables ==
    UNION {{<<hs>> \o rows :
               hs \in PlainLines({<<>>, <<"h">>, <<"k">>}, MaxColumns),
               rows \in [1..m -> PlainLines({<<>>, <<" ", "y">>}, MaxColumns + 1)]} :
           m \in 0..MaxRows}

\* the column names of the sheets whose rows are mapped
HeaderPool ==
    {<<"N", "a", "m", "e">>,
     <<"F", "u", "l", "l", " ", " ", "N", "a", "m", "e", "!">>,
     <<"P", "h", "o", "n", "e">>,
     <<"M", "o", "b", "i", "l", "e", " ", "N", "o">>,
     <<"E", "-", "m", "a", "i", "l">>,
     <<"E", "M", "A", "I", "L", " ", "2">>,
     <<"S", "o", "u", "r", "c", "e">>,
     <<"L", "e", "a", "d", " ", "S", "o", "u", "r", "c", "e">>,
     <<"A", "s", "s", "i", "g", "n", "e", "d">>,
     <<"A", "s", "s", "i", "g", "n", "e", "d", " ", "T", "o">>,
     <<"S", "t", "a", "t", "u", "s">>,
     <<"L", "e", "a", "d", " ", "S", "t", "a", "g", "e">>}

\* two columns of any of these names, or three name and phone columns
MappingTables ==
    {<<hs, vs>> :
        hs \in [1..2 -> HeaderPool], vs \in [1..2 -> {<<>>, <<"A">>, <<"B">>}]}
    \cup
    {<<hs, vs>> :
        hs \in [1..3 -> {<<"N", "a", "m", "e">>, <<"F", "u", "l", "l", " ", " ", "N", "a", "m", "e", "!">>, <<"P", "h", "o", "n", "e">>}],
        vs \in [1..3 -> {<<>>, <<"A">>, <<"B">>}]}

\* three columns of street, city and postcode names: address fragments and
\* postcodes in every order, with and without values
AddressTables ==
    {<<hs, vs>> :
        hs \in [1..3 -> {<<"S", "t", "r", "e", "e", "t">>, <<"C", "i", "t", "y">>,
                         <<"P", "i", "n", "c", "o", "d", "e">>, <<"Z", "i", "p">>}],
        vs \in [1..3 -> {<<>>, <<"A">>, <<"B">>}]}

\* two columns whose names satisfy several rules of the mapper, or none, or are
\* the name of a canonical field
RuleTables ==
    {<<hs, vs>> :
        hs \in [1..2 -> {<<"S", "o", "u", "r", "c", "e", " ", "I", "D">>,
                         <<"E", "m", "a", "i", "l", " ", "A", "d", "d", "r", "e", "s", "s">>,
                         <<"S", "o", "u", "r", "c", "e", " ", "N", "a", "m", "e">>,
                         <<"A", "s", "s", "i", "g", "n", "e", "d", " ", "T", "o">>,
                         <<"L", "o", "c", "a", "t", "i", "o", "n">>,
                         <<"i", "d">>,
                         <<"N", "o", "t", "e">>,
                         <<"n", "o", "t", "e", "!">>}],
        vs \in [1..2 -> {<<>>, <<"A">>, <<"B">>}]}

\* one column whose name is any short string of letters, digits, underscores,
\* blanks and dashes
HeaderTables ==
    {<<<<h>>, <<<<"v">>>>>> :
        h \in StringsOver({"A", "b", "1", "_", " ", "-"}, MaxHeaderLen)}

\* fetchGoogleSheetLeads has obtained the text generated from some table
InitSheet ==
    /\ isSupabaseConfigured = FALSE
    /\ sheet = <<>>
    /\ table = InitialTable
    /\ nextId = 0
    /\ heap = <<>>
    /\ arrays = << <<>> >>
    /\ maps = <<EmptyIndex>>
    /\ leads = 1
    /\ loading = "idle"
    /\ mounted = TRUE
    /\ initTimeout = FALSE
    /\ cycles = 1
    /\ fetching = 1
    /\ pending = {}
    /\ failed = {}
    /\ lastPass = NoPass
    /\ updater = NotRunning
    /\ sheetUrl = SyncSheetUrl
    /\ fetchPc = "csv"
    /\ requested = <<>>
    /\ thrown = "none"
    /\ sheetRows = <<>>
    /\ sheetLeads = <<>>
    /\ \/ /\ cells \in QuotedTables
          /\ csv = QuotedCsv(cells)
       \/ /\ cells \in PlainTables \cup MappingTables \cup AddressTables
                        \cup RuleTables \cup HeaderTables
          /\ \E lineBreak \in LineBreaks : csv = PlainCsv(cells, lineBreak)

\* if (!csv) throw new Error('Empty CSV'); const rows = parseCsv(csv)
ParseCsv ==
    /\ fetchPc = "csv"
    /\ IF ~Truthy(csv)
       THEN /\ thrown' = "Empty CSV"
            /\ fetchPc' = "done"
            /\ UNCHANGED sheetRows
       ELSE /\ sheetRows' = parseCsv(csv)
            /\ fetchPc' = "rows"
            /\ UNCHANGED thrown
    /\ UNCHANGED <<updater, sheetUrl, requested, cells, csv, sheetLeads, syncVars>>

\* const leads = rows.map(mapSheetRowToLead)
MapRows ==
    /\ fetchPc = "rows"
    /\ sheetLeads' = [i \in DOMAIN sheetRows |-> mapSheetRowToLead(sheetRows[i])]
    /\ fetchPc' = "leads"
    /\ UNCHANGED <<updater, sheetUrl, requested, thrown, cells, csv, sheetRows, syncVars>>

NextSheet ==
    \/ ParseCsv
    \/ MapRows

\* parseCsv and mapSheetRowToLead applied to the generated texts
SpecSheet == InitSheet /\ [][NextSheet]_vars

\* ------------------------------------------------------------------------
\* The setLeads updater of doSync run row by row, between the other callbacks
\* ------------------------------------------------------------------------

\* fetchGoogleSheetLeads returns the rows, doSync calls setLeads and the
\* updater is entered: the Maps are built and current is copied
UpdaterBegins ==
    /\ CallStackEmpty
    /\ fetching > 0
    /\ mounted /\ Len(sheet) # 0
    /\ updater' = [i |-> 1, no |-> Len(arrays) + 1, input |-> leads,
                   pending0 |-> pending, failed0 |-> failed,
                   current |-> arrays[leads], heap0 |-> heap, rows |-> sheet,
                   st |-> [heap |-> heap,
                           idx |-> BuildIndex(heap, arrays[leads], 1, EmptyIndex),
                           newLeads |-> arrays[leads],
                           skipped |-> 0, tasks |-> {}, log |-> <<>>]]
    /\ fetching' = fetching - 1
    /\ UNCHANGED <<fetchVars, isSupabaseConfigured, sheet, table, nextId, heap, arrays, maps,
                   leads, loading, mounted, initTimeout, cycles, pending, failed, lastPass>>

\* one round of sheetLeads.forEach: the row is skipped, merged or made a new
\* lead, and the async function of its branch runs up to its await, which
\* submits the update or the creation
UpdaterRow ==
    /\ updater.i \in 1..Len(updater.rows)
    /\ LET st == MergeRow([updater.st EXCEPT !.heap = heap], updater.rows[updater.i],
                          updater.i, updater.no, updater.no, TimeStr(cycles),
                          isSupabaseConfigured)
       IN  /\ updater' = [updater EXCEPT !.i = @ + 1, !.st = st]
           /\ heap' = st.heap
           /\ pending' = pending \cup (st.tasks \ updater.st.tasks)
    /\ UNCHANGED <<fetchVars, isSupabaseConfigured, sheet, table, nextId, arrays, maps, leads,
                   loading, mounted, initTimeout, cycles, fetching, failed, lastPass>>

\* return newLeads: the array becomes the value of the leads state
UpdaterReturns ==
    /\ updater.i > Len(updater.rows)
    /\ updater.i > 0
    /\ arrays' = Append(arrays, updater.st.newLeads)
    /\ maps' = Append(maps, updater.st.idx)
    /\ leads' = Len(arrays) + 1
    /\ lastPass' = [no |-> updater.no, prev |-> lastPass.no, input |-> updater.input,
                    pending0 |-> updater.pending0, failed0 |-> updater.failed0,
                    current |-> updater.current, heap0 |-> updater.heap0,
                    rows |-> updater.rows, out |-> updater.st.newLeads, heap1 |-> heap,
                    skipped |-> updater.st.skipped, tasks |-> updater.st.tasks,
                    log |-> updater.st.log]
    /\ updater' = NotRunning
    /\ UNCHANGED <<fetchVars, isSupabaseConfigured, sheet, table, nextId, heap, loading,
                   mounted, initTimeout, cycles, fetching, pending, failed>>

\* the view is mounted with a configured store
InitSteps ==
    /\ isSupabaseConfigured = TRUE
    /\ sheet \in Sheets
    /\ table = InitialTable
    /\ nextId = 0
    /\ heap = <<>>
    /\ arrays = << <<>> >>
    /\ maps = <<EmptyIndex>>
    /\ leads = 1
    /\ loading = "pending"
    /\ mounted = TRUE
    /\ initTimeout = TRUE
    /\ cycles = 0
    /\ fetching = 0
    /\ pending = {}
    /\ failed = {}
    /\ lastPass = NoPass
    /\ updater = NotRunning
    /\ FetchNotTraced

NextSteps ==
    \/ FetchDataDone
    \/ FetchDataThrows
    \/ InitTimeoutFires
    \/ IntervalTick
    \/ SheetFetchFails
    \/ SheetFetchIgnored
    \/ UpdaterBegins
    \/ UpdaterRow
    \/ UpdaterReturns
    \/ Unmount
    \/ InsertDone
    \/ InsertFails
    \/ UpdateDone
    \/ UpdateFails

\* the sync cycles with the updater run row by row
SpecSteps == InitSteps /\ [][NextSteps]_vars

\* ------------------------------------------------------------------------
\* Properties of the merge pass, stated over the most recent pass
\* ------------------------------------------------------------------------

Range(seq) == {seq[i] : i \in DOMAIN seq}

Rows == lastPass.rows

Log == lastPass.log

\* the heap and the array as row i of the pass found them
HeapBefore(i) == IF i = 1 THEN lastPass.heap0 ELSE Log[i - 1].heap

NewLeadsBefore(i) == IF i = 1 THEN lastPass.current ELSE Log[i - 1].newLeads

\* leads of the input collection, as they were when the indices were built
InputLeads == Range(lastPass.current)

InputLead(ref) == lastPass.heap0[ref]

IdHolders(s) ==
    {r \in InputLeads : Truthy(Get(InputLead(r), "id")) /\ Get(InputLead(r), "id") = Get(s, "id")}

EmailHolders(s) ==
    {r \in InputLeads : /\ Truthy(Get(InputLead(r), "customer_email"))
                        /\ toLowerCase(Get(InputLead(r), "customer_email")) = RowEmail(s)}

PhoneHolders(s) ==
    {r \in InputLeads : /\ Truthy(Get(InputLead(r), "customer_phone"))
                        /\ Get(InputLead(r), "customer_phone") = RowPhone(s)}

InputNameHolders(s) ==
    {r \in InputLeads : /\ Truthy(Get(InputLead(r), "customer_name"))
                        /\ normalizeName(Get(InputLead(r), "customer_name"))
                               = RowNameNorm(s)}

\* rows before row i that created a lead under the normalized name of row i
EarlierCreators(i) ==
    {j \in 1..(i - 1) :
        /\ Log[j].kind = "new"
        /\ Truthy(Get(Log[j].heap[Log[j].ref], "customer_name"))
        /\ normalizeName(Get(Log[j].heap[Log[j].ref], "customer_name"))
               = RowNameNorm(Rows[i])}

\* leads indexed under the row's normalized name when row i is reached: leads
\* of the input collection and leads created by earlier rows of the pass
NameHolders(i) == InputNameHolders(Rows[i]) \cup {Log[j].ref : j \in EarlierCreators(i)}

IdHit(i) == Truthy(Get(Rows[i], "id")) /\ IdHolders(Rows[i]) # {}

EmailHit(i) == Truthy(RowEmail(Rows[i])) /\ EmailHolders(Rows[i]) # {}

PhoneHit(i) == Truthy(RowPhone(Rows[i])) /\ PhoneHolders(Rows[i]) # {}

NameHit(i) == Truthy(RowNameNorm(Rows[i])) /\ NameHolders(i) # {}

\* C1: an identifiable row resolves to a lead found by the first of the keys id,
\* lowercased email, trimmed phone, normalized name that is non-empty in the row
\* and held by an indexed lead; a key that hits nothing falls through to the
\* next; a row that hits with no key creates a lead, and a row whose id is an
\* existing lead's id resolves to that lead whatever its other keys hit.
C1_MatchPriority ==
    \A i \in DOMAIN Log :
        ~Unidentifiable(Rows[i]) =>
            IF IdHit(i) THEN Log[i].kind = "match" /\ Log[i].ref \in IdHolders(Rows[i])
            ELSE IF EmailHit(i)
                 THEN Log[i].kind = "match" /\ Log[i].ref \in EmailHolders(Rows[i])
            ELSE IF PhoneHit(i)
                 THEN Log[i].kind = "match" /\ Log[i].ref \in PhoneHolders(Rows[i])
            ELSE IF NameHit(i)
                 THEN Log[i].kind = "match" /\ Log[i].ref \in NameHolders(i)
            ELSE Log[i].kind = "new"

\* a row matched by its id although its email is the email of another lead
C1_Witness ==
    \E i \in DOMAIN Log :
        /\ Log[i].kind = "match"
        /\ IdHit(i)
        /\ EmailHolders(Rows[i]) # {}
        /\ Log[i].ref \notin EmailHolders(Rows[i])
        /\ Len(lastPass.out) = Len(lastPass.current)

\* a row that carries a name and no id, email or phone
NameOnly(i) ==
    /\ ~Truthy(Get(Rows[i], "id"))
    /\ ~Truthy(RowEmail(Rows[i]))
    /\ ~Truthy(RowPhone(Rows[i]))
    /\ Truthy(RowNameNorm(Rows[i]))

\* the name-only rows of the pass that share the normalized name of row i
NameGroup(i) == {j \in DOMAIN Log : NameOnly(j) /\ RowNameNorm(Rows[j]) = RowNameNorm(Rows[i])}

NewAmong(g) == {j \in g : Log[j].kind = "new"}

CreationsFor(g) == {task \in lastPass.tasks : task.kind = "insert" /\ task.row \in g}

\* the rows of g produce one new lead, and every later row of g resolves to it
OneLeadFor(g) ==
    /\ Cardinality(NewAmong(g)) = 1
    /\ \A f \in NewAmong(g) : \A j \in g :
          j > f => Log[j].kind = "match" /\ Log[j].ref = Log[f].ref

\* C2 as stated, for a configured store: name-only rows sharing a normalized
\* name that match no lead of the input collection produce exactly one new lead
\* and exactly one creation submission, and every later such row resolves to
\* that lead.
C2_Original ==
    isSupabaseConfigured =>
        \A i \in DOMAIN Log :
            NameOnly(i) /\ InputNameHolders(Rows[i]) = {} =>
                OneLeadFor(NameGroup(i)) /\ Cardinality(CreationsFor(NameGroup(i))) = 1

\* C2 (amended): name-only rows sharing a normalized name that match no lead of
\* the input collection, and no lead created under that name by an earlier row
\* of the pass that carries an id, email or phone, produce exactly one new lead;
\* every later such row resolves to that lead; exactly one creation is submitted
\* for them when persistence is configured and none when it is not.
C2_NameDedup ==
    \A i \in DOMAIN Log :
        /\ NameOnly(i)
        /\ InputNameHolders(Rows[i]) = {}
        /\ \A j \in EarlierCreators(i) : NameOnly(j)
        => /\ OneLeadFor(NameGroup(i))
           /\ Cardinality(CreationsFor(NameGroup(i)))
                 = IF isSupabaseConfigured THEN 1 ELSE 0

\* two name-only rows with one normalized name: the first created the lead, the
\* second was merged into it, and one creation was submitted
C2_Witness ==
    /\ isSupabaseConfigured
    /\ \E i, j \in DOMAIN Log :
          /\ i < j
          /\ NameOnly(i) /\ NameOnly(j)
          /\ RowNameNorm(Rows[i]) = RowNameNorm(Rows[j])
          /\ Log[i].kind = "new"
          /\ Log[j].kind = "match"
          /\ Log[j].ref = Log[i].ref
          /\ Cardinality(CreationsFor({i, j})) = 1

\* the rows of the pass that carry the email (the phone) of row i
EmailGroup(i) == {j \in DOMAIN Log : RowEmail(Rows[j]) = RowEmail(Rows[i])}

PhoneGroup(i) == {j \in DOMAIN Log : RowPhone(Rows[j]) = RowPhone(Rows[i])}

MatchNoInputLead(g) == \A j \in g : Log[j].ref \notin InputLeads

OneCreationFor(g) ==
    /\ Cardinality(NewAmong(g)) = 1
    /\ Cardinality(CreationsFor(g)) = 1

\* C3: with a configured store, rows of one batch that share a non-empty
\* lowercased email (or a non-empty phone) and match no lead of the input
\* collection add exactly one new lead and submit exactly one creation.
C3_NoDuplicates ==
    isSupabaseConfigured =>
        \A i \in DOMAIN Log :
            /\ (Truthy(RowEmail(Rows[i])) /\ Cardinality(EmailGroup(i)) > 1
                   /\ MatchNoInputLead(EmailGroup(i)))
                  => OneCreationFor(EmailGroup(i))
            /\ (Truthy(RowPhone(Rows[i])) /\ Cardinality(PhoneGroup(i)) > 1
                   /\ MatchNoInputLead(PhoneGroup(i)))
                  => OneCreationFor(PhoneGroup(i))

\* the four identifying fields of the row are all empty
AllKeysEmpty(s) == \A k \in KeyColumns : ~Truthy(Get(s, k))

\* C4: a row whose id, email, phone and name are all empty is skipped: it adds
\* no lead, modifies no lead, submits nothing, and the rows after it are still
\* processed (an identifiable one is merged or inserted).
C4_SkipUnidentifiable ==
    /\ Len(Log) = Len(Rows)
    /\ \A i \in DOMAIN Log :
          AllKeysEmpty(Rows[i]) =>
              /\ Log[i].kind = "skip"
              /\ Log[i].newLeads = NewLeadsBefore(i)
              /\ Log[i].heap = HeapBefore(i)
              /\ \A task \in lastPass.tasks : task.row # i
              /\ \A j \in DOMAIN Log :
                    j > i /\ ~AllKeysEmpty(Rows[j]) => Log[j].kind \in {"match", "new"}

\* a row without keys but with data in its other columns was skipped, and the
\* row after it was processed
C4_Witness ==
    \E i, j \in DOMAIN Log :
        /\ j > i
        /\ AllKeysEmpty(Rows[i])
        /\ \E k \in DOMAIN Rows[i] : Truthy(Rows[i][k])
        /\ Log[i].kind = "skip"
        /\ Log[j].kind \in {"match", "new"}
        /\ lastPass.skipped = 1

\* the pass ran on the array the pass before it built, after every submission
\* made so far had completed successfully; all its rows are identifiable
SecondCleanPass ==
    /\ lastPass.prev # 0
    /\ lastPass.input = lastPass.prev
    /\ lastPass.pending0 = {}
    /\ lastPass.failed0 = {}
    /\ \A i \in DOMAIN Rows : ~AllKeysEmpty(Rows[i])

\* C5: a second pass over the same batch, run after all submissions of the first
\* completed successfully and without a reload in between, adds no lead and
\* submits no creation, whatever keys the rows carry.
C5_Idempotent ==
    SecondCleanPass =>
        /\ \A i \in DOMAIN Log : Log[i].kind # "new"
        /\ Len(lastPass.out) = Len(lastPass.current)
        /\ \A task \in lastPass.tasks : task.kind # "insert"

\* C6: merging a matched row leaves every field of the lead for which the row
\* has no key as it was, changes the lead object in place (no object is
\* created) and neither adds nor removes an entry of the collection.
C6_MergeFrame ==
    \A i \in DOMAIN Log :
        Log[i].kind = "match" =>
            /\ \A k \in DOMAIN HeapBefore(i)[Log[i].ref] \ DOMAIN Rows[i] :
                  /\ k \in DOMAIN Log[i].heap[Log[i].ref]
                  /\ Log[i].heap[Log[i].ref][k] = HeapBefore(i)[Log[i].ref][k]
            /\ Len(Log[i].heap) = Len(HeapBefore(i))
            /\ Log[i].newLeads = NewLeadsBefore(i)

\* a stored lead was changed by a row that has no location and no created_at
C6_Witness ==
    \E i \in DOMAIN Log :
        /\ Log[i].kind = "match"
        /\ Log[i].ref \in InputLeads
        /\ Log[i].heap[Log[i].ref] # HeapBefore(i)[Log[i].ref]
        /\ "location" \notin DOMAIN Rows[i]
        /\ Truthy(Get(Log[i].heap[Log[i].ref], "location"))
        /\ Get(Log[i].heap[Log[i].ref], "created_at") = TimeStr(0)

\* the fields an update may carry
AllowList ==
    {"customer_name", "customer_phone", "customer_email", "location", "source_id",
     "assigned_to", "status"}

\* the value the mapped row has for an allow-listed field (the mapper stores the
\* source column under the key source)
RowValue(s, k) == IF k = "source_id" THEN Get(s, "source") ELSE Get(s, k)

UpdatesFor(i) == {task \in lastPass.tasks : task.kind = "update" /\ task.row = i}

\* C7: an update submitted for a matched row carries exactly the allow-listed
\* fields that are non-empty in the mapped row, with the row's values, and
\* nothing else; a row with none of them non-empty submits no update.
C7_UpdatePayload ==
    \A i \in DOMAIN Log :
        /\ \A task \in UpdatesFor(i) :
              /\ Log[i].kind = "match"
              /\ DOMAIN task.payload = {k \in AllowList : Truthy(RowValue(Rows[i], k))}
              /\ \A k \in DOMAIN task.payload : task.payload[k] = RowValue(Rows[i], k)
        /\ (\A k \in AllowList : ~Truthy(RowValue(Rows[i], k))) => UpdatesFor(i) = {}

\* an update that carries the source and the status of its row, and neither the
\* row's extra column nor its empty phone
C7_Witness ==
    \E i \in DOMAIN Log : \E task \in UpdatesFor(i) :
        /\ Truthy(Get(Rows[i], "note"))
        /\ Get(Rows[i], "customer_phone") = EmptyStr
        /\ DOMAIN task.payload =
              {"customer_name", "location", "source_id", "assigned_to", "status"}
        /\ task.payload["source_id"] = Get(Rows[i], "source")

\* C8: with persistence configured, every row that resolves to a lead and
\* carries a non-empty allow-listed field causes exactly one update submission,
\* whichever lead it resolves to.
C8_EveryMatchUpdates ==
    isSupabaseConfigured =>
        \A i \in DOMAIN Log :
            /\ Log[i].kind = "match"
            /\ \E k \in AllowList : Truthy(RowValue(Rows[i], k))
            => Cardinality(UpdatesFor(i)) = 1

\* the submissions a step completes
Completed == pending \ pending'

\* C9: a failed update or creation leaves the in-memory collection as it is (the
\* lead objects, the arrays, the current array), leaves every other submission
\* outstanding, and every pass has processed all rows of its batch.
C9_FailureKeepsMemory ==
    /\ [](Len(Log) = Len(Rows))
    /\ [][failed' # failed =>
            /\ heap' = heap
            /\ arrays' = arrays
            /\ leads' = leads
            /\ Cardinality(Completed) = 1
            /\ failed' = failed \cup Completed
            /\ pending' = pending \ Completed]_vars

\* a creation has failed, its placeholder is still in the current collection,
\* and an update of the same pass has completed
C9_Witness ==
    \E task \in failed :
        /\ task.kind = "insert"
        /\ task.pass = lastPass.no
        /\ task.lead \in Range(arrays[leads])
        /\ Len(Rows) > task.row
        /\ \E other \in lastPass.tasks : other \notin pending /\ other \notin failed

\* the leads created by rows 1..i of the pass, latest first
RECURSIVE CreatedUpTo(_)
CreatedUpTo(i) ==
    IF i = 0 THEN <<>>
    ELSE IF Log[i].kind = "new" THEN <<Log[i].ref>> \o CreatedUpTo(i - 1)
    ELSE CreatedUpTo(i - 1)

\* identifiable rows that no key resolves to a lead
Unresolved ==
    {i \in DOMAIN Log :
        /\ ~AllKeysEmpty(Rows[i])
        /\ ~IdHit(i) /\ ~EmailHit(i) /\ ~PhoneHit(i) /\ ~NameHit(i)}

\* C10: the collection a pass returns is the leads it created, latest first,
\* followed by the input collection in its order; its length is the input
\* length plus the number of identifiable rows that resolved to no lead.
C10_ResultOrder ==
    /\ lastPass.out = CreatedUpTo(Len(Log)) \o lastPass.current
    /\ \A i \in DOMAIN Log : Log[i].kind = "new" => Log[i].ref \notin InputLeads
    /\ Len(lastPass.out) = Len(lastPass.current) + Cardinality(Unresolved)

\* two leads were created in front of a loaded collection
C10_Witness ==
    /\ Len(lastPass.current) = 2
    /\ Len(Log) = 2
    /\ Log[1].kind = "new" /\ Log[2].kind = "new"
    /\ lastPass.out = <<Log[2].ref, Log[1].ref>> \o lastPass.current

\* ------------------------------------------------------------------------
\* Properties of the identifiers and of the creation submissions
\* ------------------------------------------------------------------------

\* the identifiers the store has assigned: those of the records of its table
StoreIds == {table[i].id : i \in DOMAIN table}

\* the leads of the current in-memory collection
CurrentLeads == Range(arrays[leads])

\* the creations that are still outstanding, and their placeholders
PendingInserts == {task \in pending : task.kind = "insert"}

\* C11: with a configured store, the identifier of every lead of the in-memory
\* collection is absent or one the store assigned, never a value taken from a
\* sheet row, and the placeholder of an outstanding creation has no identifier.
C11_IdAbsentOrStored ==
    isSupabaseConfigured =>
        /\ \A ref \in CurrentLeads :
              \/ ~Truthy(Get(heap[ref], "id"))
              \/ Get(heap[ref], "id") \in StoreIds
        /\ \A task \in PendingInserts : ~Truthy(Get(heap[task.lead], "id"))

\* the positions of a lead in an array
PositionsOf(arr, ref) == {p \in DOMAIN arr : arr[p] = ref}

\* the rows of the latest pass after row i that created a lead
LaterCreators(i) == {j \in DOMAIN Log : j > i /\ Log[j].kind = "new"}

\* the array arr after a step differs from before at position at only, where
\* it now holds the record the store created in this step
ReplacedAt(task, at) ==
    /\ Len(arrays'[task.arr]) = Len(arrays[task.arr])
    /\ \A q \in DOMAIN arrays[task.arr] \ {at} :
          arrays'[task.arr][q] = arrays[task.arr][q]
    /\ arrays'[task.arr][at] \notin DOMAIN heap
    /\ heap'[arrays'[task.arr][at]] = table'[1]
    /\ table'[1].id = StoreId(nextId')
    /\ \A k \in DOMAIN task.payload : table'[1][k] = task.payload[k]

\* C12: a creation that succeeds replaces its placeholder by the persisted
\* record, which carries the identifier the store assigned, at the position the
\* placeholder occupies in the array its pass built (behind the leads that later
\* rows of the batch prepended); the length of that array, its other entries,
\* the other arrays and the existing lead objects are unchanged.
C12_ReplacedInPlace ==
    [][nextId' # nextId =>
          \E task \in Completed :
              /\ Completed = {task}
              /\ task.kind = "insert"
              /\ Cardinality(PositionsOf(arrays[task.arr], task.lead)) = 1
              /\ \A at \in PositionsOf(arrays[task.arr], task.lead) :
                    /\ ReplacedAt(task, at)
                    /\ task.pass = lastPass.no =>
                          at = Cardinality(LaterCreators(task.row)) + 1
              /\ \A a \in DOMAIN arrays \ {task.arr} : arrays'[a] = arrays[a]
              /\ DOMAIN arrays' = DOMAIN arrays
              /\ \A ref \in DOMAIN heap : heap'[ref] = heap[ref]
              /\ leads' = leads]_vars

\* the creation for the first of two inserted rows has succeeded: the persisted
\* record stands at the second position of the collection, behind the
\* placeholder of the second row
C12_Witness ==
    /\ lastPass.no = leads
    /\ Len(Log) = 2
    /\ Log[1].kind = "new" /\ Log[2].kind = "new"
    /\ Len(arrays[leads]) = Len(lastPass.out)
    /\ arrays[leads][1] = Log[2].ref
    /\ arrays[leads][2] # Log[1].ref
    /\ Get(heap[arrays[leads][2]], "id") = StoreId(1)
    /\ \A q \in DOMAIN lastPass.out : q # 2 => arrays[leads][q] = lastPass.out[q]

\* the creations that failed
FailedInserts == {task \in failed : task.kind = "insert"}

\* the identifiers the store has assigned to the records it created
CreatedIds == {StoreId(n) : n \in 1..nextId}

\* the latest pass ran after the creation had failed, on a collection that
\* still holds its placeholder (the sheet, and so the row, is the same)
RecursAfterFailure(task) == task \in lastPass.failed0 /\ task.lead \in InputLeads

\* sheets of three rows with a name and a phone column: a row with a name only,
\* a row with that name and a phone, a row without a name
RecurSheets ==
    {s \in [1..3 -> RowsOver({"customer_phone", "customer_name"})] :
        /\ Truthy(s[1].customer_name) /\ ~Truthy(s[1].customer_phone)
        /\ Truthy(s[2].customer_name) /\ Truthy(s[2].customer_phone)
        /\ ~Truthy(s[3].customer_name)}

\* the view is mounted with a configured store and one of these sheets
InitRecur ==
    /\ isSupabaseConfigured = TRUE
    /\ sheet \in RecurSheets
    /\ table = InitialTable
    /\ nextId = 0
    /\ heap = <<>>
    /\ arrays = << <<>> >>
    /\ maps = <<EmptyIndex>>
    /\ leads = 1
    /\ loading = "pending"
    /\ mounted = TRUE
    /\ initTimeout = TRUE
    /\ cycles = 0
    /\ fetching = 0
    /\ pending = {}
    /\ failed = {}
    /\ lastPass = NoPass
    /\ updater = NotRunning
    /\ FetchNotTraced

\* one more interval tick, after the cycles before it have settled
LaterTick ==
    /\ CallStackEmpty
    /\ mounted
    /\ ~initTimeout
    /\ cycles = MaxCycles
    /\ fetching = 0
    /\ pending = {}
    /\ cycles' = cycles + 1
    /\ fetching' = fetching + 1
    /\ UNCHANGED <<updater, fetchVars, isSupabaseConfigured, sheet, table, nextId, heap, arrays, maps,
                   leads, loading, mounted, initTimeout, pending, failed, lastPass>>

NextRecur ==
    \/ FetchDataDone
    \/ FetchDataThrows
    \/ InitTimeoutFires
    \/ IntervalTick
    \/ LaterTick
    \/ SheetFetchFails
    \/ SheetFetchIgnored
    \/ SheetFetchMerges
    \/ Unmount
    \/ InsertDone
    \/ InsertFails
    \/ UpdateDone
    \/ UpdateFails

\* three sync cycles over a sheet of three rows
SpecRecur == InitRecur /\ [][NextRecur]_vars

\* C13: after a creation failed its placeholder stays in the array its pass
\* built, without an identifier assigned by the store; no other creation is
\* ever submitted for that placeholder; and in a later pass that finds the
\* placeholder in its input collection the same row resolves to a lead and
\* submits no creation.
C13_NoRetry ==
    \A task \in FailedInserts :
        /\ task.lead \in Range(arrays[task.arr])
        /\ Get(heap[task.lead], "id") \notin CreatedIds
        /\ \A other \in (pending \cup failed) \ {task} :
              other.kind = "insert" => other.lead # task.lead
        /\ RecursAfterFailure(task) =>
              /\ Rows[task.row] = sheet[task.row]
              /\ Log[task.row].kind = "match"
              /\ \A other \in lastPass.tasks :
                    other.kind = "insert" => other.row # task.row

\* ------------------------------------------------------------------------
\* Properties of fetchGoogleSheetLeads
\* ------------------------------------------------------------------------

\* the request has been answered
Answered(request) == request.response.kind # "pending"

\* the answer is a failure of the endpoint: a network error, a status that is
\* not a success, or a body whose trimmed text starts with <
EndpointFailed(resp) ==
    \/ resp.kind \in {"network", "status"}
    \/ resp.kind = "text" /\ trim(resp.text) # <<>> /\ Head(trim(resp.text)) = "<"

\* the rows mapped from the records of a body
LeadsOf(text) == [i \in DOMAIN parseCsv(text) |-> mapSheetRowToLead(parseCsv(text)[i])]

\* C14: the first request of a call goes to the published-to-web endpoint; the
\* export endpoint is requested only after that request failed, and whenever it
\* failed the export endpoint is requested before the call raises a failure;
\* when the first request succeeds no second one is made and the rows returned
\* are those of the first body.
C14_FallbackOrder ==
    /\ Len(requested) <= 2
    /\ Len(requested) >= 1 =>
          /\ requested[1].endpoint = "pub"
          /\ requested[1].sheetId = sheetIdOf(sheetUrl)
    /\ Len(requested) = 2 =>
          /\ requested[2].endpoint = "export"
          /\ requested[2].sheetId = requested[1].sheetId
          /\ Answered(requested[1])
          /\ EndpointFailed(requested[1].response)
    /\ Len(requested) >= 1 /\ Answered(requested[1]) =>
          IF EndpointFailed(requested[1].response)
          THEN /\ Len(requested) = 2
               /\ thrown # "none" => Answered(requested[2])
          ELSE /\ Len(requested) = 1
               /\ csv = requested[1].response.text
               /\ thrown = "none" => sheetLeads = LeadsOf(requested[1].response.text)

\* the first endpoint answered with an HTML page, the export endpoint with a
\* sheet, and the rows of that sheet were merged
C14_Witness ==
    /\ fetchPc = "done"
    /\ Len(requested) = 2
    /\ requested[1].response.kind = "text"
    /\ ~EndpointFailed(requested[2].response)
    /\ Len(sheetLeads) > 0
    /\ sheetLeads = LeadsOf(requested[2].response.text)
    /\ lastPass.no = leads
    /\ Len(lastPass.rows) = Len(sheetLeads)

\* both requests of the call were answered with a failure
BothFailed(reqs) ==
    /\ Len(reqs) = 2
    /\ Answered(reqs[2])
    /\ EndpointFailed(reqs[1].response)
    /\ EndpointFailed(reqs[2].response)

\* C15: when both endpoints fail the call ends with an error, it returns no
\* list of rows (neither an empty nor a partial one), and the sync cycle that
\* made the call merges nothing and submits nothing: the collection, the lead
\* objects, the store and the outstanding submissions stay as they are.
C15_BothFailNoMerge ==
    [][fetchPc = "export" /\ BothFailed(requested') =>
          /\ fetchPc' = "done"
          /\ thrown' \notin {"none", "Empty CSV", "Invalid Google Sheet URL"}
          /\ csv' = null
          /\ sheetLeads' = <<>>
          /\ UNCHANGED <<heap, arrays, maps, leads, pending, failed, table, nextId,
                         lastPass>>]_vars

\* both endpoints failed in the cycle after one that merged a sheet: the call
\* ended with an error and the creations of the earlier cycle are outstanding
C15_Witness ==
    /\ fetchPc = "done"
    /\ BothFailed(requested)
    /\ thrown = "Failed to fetch Google Sheet CSV"
    /\ lastPass.no = leads
    /\ pending # {}
    /\ cycles = 2

\* the URL has a /d/ followed by at least one identifier character
HasIdSegment(url) ==
    \E i \in DOMAIN url :
        /\ i + 3 <= Len(url)
        /\ url[i] = "/" /\ url[i + 1] = "d" /\ url[i + 2] = "/"
        /\ IsIdChar(url[i + 3])

\* C16: a cycle whose share URL has no /d/<identifier> segment ends with the
\* invalid-URL error and requests neither endpoint; a URL that has the segment
\* never ends with that error.
C16_InvalidUrl ==
    /\ cycles > 0 /\ ~HasIdSegment(sheetUrl) =>
          /\ fetchPc = "done"
          /\ thrown = "Invalid Google Sheet URL"
          /\ requested = <<>>
          /\ fetching = 0
          /\ lastPass = NoPass
    /\ HasIdSegment(sheetUrl) => thrown # "Invalid Google Sheet URL"

\* a URL that has a /d/ segment without an identifier was refused
C16_Witness ==
    /\ cycles = 2
    /\ includes(sheetUrl, <<"/", "d", "/">>)
    /\ thrown = "Invalid Google Sheet URL"
    /\ requested = <<>>

\* ------------------------------------------------------------------------
\* Properties of parseCsv, normalizeHeader and mapSheetRowToLead
\* ------------------------------------------------------------------------

\* parseCsv has been applied to the text
Parsed == fetchPc \in {"rows", "leads"}

\* the text was generated from a header line and one row by quoting each field
QuotedInput == csv = QuotedCsv(cells)

\* no column after column j has the same name once trimmed
LastOfItsName(headers, j) ==
    \A k \in DOMAIN headers : k > j => trim(headers[k]) # trim(headers[j])

\* the column names are distinct and have no blanks around them
PlainNames(headers) ==
    /\ \A j \in DOMAIN headers : trim(headers[j]) = headers[j]
    /\ \A j, k \in DOMAIN headers : j # k => headers[j] # headers[k]

\* C17 as stated, for column names that are distinct and have no blanks around
\* them: parsing the text generated by quoting every field gives back every
\* field value exactly, blanks at its ends included.
C17_Original ==
    QuotedInput /\ Parsed /\ PlainNames(cells[1]) =>
        /\ Len(sheetRows) = 1
        /\ \A j \in DOMAIN cells[1] : GetProp(sheetRows[1], cells[1][j]) = cells[2][j]

\* C17 (amended): parsing the text generated by quoting every field of a header
\* line and a row gives one record that holds, under each column name with the
\* white space at its ends removed, the field value with the white space at
\* its ends removed (of two columns with the same name, the value of the
\* later); commas, double quotes and inner blanks are given back exactly.
C17_RoundTrip ==
    QuotedInput /\ Parsed =>
        /\ Len(sheetRows) = 1
        /\ \A j \in DOMAIN cells[1] :
              /\ HasProp(sheetRows[1], trim(cells[1][j]))
              /\ LastOfItsName(cells[1], j) =>
                    GetProp(sheetRows[1], trim(cells[1][j])) = trim(cells[2][j])
        /\ \A e \in DOMAIN sheetRows[1] :
              \E j \in DOMAIN cells[1] : sheetRows[1][e][1] = trim(cells[1][j])

\* a value made of a double quote and a comma and a value with an inner blank
\* came back as they were
C17_Witness ==
    /\ QuotedInput
    /\ Parsed
    /\ Len(cells[2]) = 2
    /\ cells[2][1] = <<"\"", ",">>
    /\ cells[2][2] = <<"a", " ">>
    /\ GetProp(sheetRows[1], <<"h">>) = cells[2][1]
    /\ GetProp(sheetRows[1], <<"k">>) = <<"a">>

\* the text was generated from lines of plain fields
PlainInput == \E lineBreak \in LineBreaks : csv = PlainCsv(cells, lineBreak)

\* a line is blank when it is a single field of white space only
BlankLine(line) == Len(line) = 1 /\ trim(line[1]) = <<>>

\* the lines of the generated text that are not blank
Lines == SelectSeq(cells, LAMBDA line : ~BlankLine(line))

\* the keys of a record
Keys(obj) == {obj[e][1] : e \in DOMAIN obj}

\* C18: parseCsv returns one record per non-blank line after the first
\* non-blank line; the keys of each record are exactly the (trimmed) column
\* names of that first line, and the record holds under the name of column j
\* the j-th field of its line (of two columns with the same name, the later),
\* the empty string when the line has no j-th field; fields beyond the number
\* of columns appear nowhere in the record.
C18_Records ==
    PlainInput /\ Parsed =>
        IF Len(Lines) = 0 THEN sheetRows = <<>>
        ELSE /\ Len(sheetRows) = Len(Lines) - 1
             /\ \A i \in DOMAIN sheetRows :
                   /\ Keys(sheetRows[i]) = {trim(Lines[1][j]) : j \in DOMAIN Lines[1]}
                   /\ Len(sheetRows[i]) = Cardinality(Keys(sheetRows[i]))
                   /\ \A j \in DOMAIN Lines[1] :
                         LastOfItsName(Lines[1], j) =>
                             GetProp(sheetRows[i], trim(Lines[1][j])) =
                                 IF j <= Len(Lines[i + 1]) THEN trim(Lines[i + 1][j])
                                 ELSE EmptyStr

\* a text with a blank first line, then a line of two columns, a line of one
\* field and a line of three fields, with CR LF line breaks: two records
C18_Witness ==
    /\ PlainInput
    /\ Parsed
    /\ csv = PlainCsv(cells, <<"\r", "\n">>)
    /\ Len(cells) = 3
    /\ Len(cells[1]) = 2 /\ cells[1][1] # cells[1][2] /\ cells[1][1] # <<>>
    /\ Len(cells[2]) = 1 /\ cells[2][1] # <<>>
    /\ Len(cells[3]) = 3 /\ cells[3][3] # <<>> /\ cells[3][2] = <<>>
    /\ Len(sheetRows) = 2
    /\ GetProp(sheetRows[1], cells[1][2]) = <<>>
    /\ Len(sheetRows[2]) = 2

\* the raw column names of the generated text, as written and as parseCsv
\* hands them on
RawHeaders ==
    UNION {{cells[1][j], trim(cells[1][j])} : j \in DOMAIN cells[1]}

\* C19: for every raw header h, normalizing the normalized header gives the
\* normalized header again, and the normalized header consists of lowercase
\* letters, digits and underscores only.
C19_NormalizeIdempotent ==
    \A h \in RawHeaders :
        /\ normalizeHeader(normalizeHeader(h)) = normalizeHeader(h)
        /\ \A i \in DOMAIN normalizeHeader(h) : IsTokenChar(normalizeHeader(h)[i])

\* a column whose name has a capital, a blank and a dash was mapped under its
\* normalized name, which differs from the name
C19_Witness ==
    /\ fetchPc = "leads"
    /\ Len(sheetLeads) = 1
    /\ \E h \in RawHeaders :
          /\ \E i \in DOMAIN h : h[i] = "A"
          /\ \E i \in DOMAIN h : h[i] = " "
          /\ \E i \in DOMAIN h : h[i] = "-"
          /\ Len(normalizeHeader(h)) = 2
          /\ HasProp(sheetLeads[1], normalizeHeader(h))
          /\ normalizeHeader(h) # h

\* the canonical field a column with this normalized name is written to by a
\* guarded assignment, "none" when it goes elsewhere
FirstWinsField(key) ==
    IF includes(key, Chars("name")) THEN "customer_name"
    ELSE IF includes(key, Chars("phone")) \/ includes(key, Chars("mobile"))
         THEN "customer_phone"
    ELSE IF includes(key, Chars("email")) THEN "customer_email"
    ELSE IF \E lit \in {"address", "street", "location", "place", "area", "city",
                         "post", "pin", "zip"} : includes(key, Chars(lit))
         THEN "none"
    ELSE IF key = Chars("id") \/ endsWith(key, Chars("_id")) THEN "none"
    ELSE IF includes(key, Chars("source")) THEN "source"
    ELSE IF includes(key, Chars("assigned")) THEN "assigned_to"
    ELSE IF includes(key, Chars("stage")) \/ includes(key, Chars("status")) THEN "status"
    ELSE "none"

FirstWinsFields ==
    {"customer_name", "customer_phone", "customer_email", "source", "assigned_to", "status"}

\* the columns of a record, in order, that are classified to a field
ColumnsOf(row, field) ==
    {j \in DOMAIN row : FirstWinsField(normalizeHeader(row[j][1])) = field}

\* the first of them that has a non-empty value, 0 when there is none
FirstNonEmpty(row, field) ==
    IF \E j \in ColumnsOf(row, field) : row[j][2] # <<>>
    THEN CHOOSE j \in ColumnsOf(row, field) :
            /\ row[j][2] # <<>>
            /\ \A k \in ColumnsOf(row, field) : k < j => row[k][2] = <<>>
    ELSE 0

\* C20: for each of the fields customer_name, customer_phone, customer_email,
\* source, assigned_to and status the mapped value is the value of the first
\* column, in the order of the record, that is classified to the field and is
\* not empty; it is the empty string when all columns classified to the field
\* are empty, and the field is absent when no column is classified to it.
C20_FirstWins ==
    fetchPc = "leads" =>
        \A i \in DOMAIN sheetRows : \A field \in FirstWinsFields :
            IF ColumnsOf(sheetRows[i], field) = {}
            THEN ~HasProp(sheetLeads[i], Chars(field))
            ELSE IF FirstNonEmpty(sheetRows[i], field) = 0
            THEN GetProp(sheetLeads[i], Chars(field)) = <<>>
            ELSE GetProp(sheetLeads[i], Chars(field)) =
                     sheetRows[i][FirstNonEmpty(sheetRows[i], field)][2]

\* two name columns with different values followed by a phone column: the
\* mapped name is the value of the first name column
C20_Witness ==
    /\ fetchPc = "leads"
    /\ Len(sheetRows) = 1
    /\ Len(sheetRows[1]) = 3
    /\ Cardinality(ColumnsOf(sheetRows[1], "customer_name")) = 2
    /\ ColumnsOf(sheetRows[1], "customer_phone") = {3}
    /\ sheetRows[1][1][2] = <<"A">>
    /\ sheetRows[1][2][2] = <<"B">>
    /\ sheetRows[1][3][2] = <<"B">>
    /\ GetProp(sheetLeads[1], Chars("customer_name")) = <<"A">>
    /\ GetProp(sheetLeads[1], Chars("customer_phone")) = <<"B">>

\* ------------------------------------------------------------------------
\* Properties of mapSheetRowToLead: the rules and the location
\* ------------------------------------------------------------------------

\* the rule a normalized column name falls under: the earliest it satisfies
RuleOf(key) ==
    IF includes(key, Chars("name")) THEN "name"
    ELSE IF includes(key, Chars("phone")) \/ includes(key, Chars("mobile")) THEN "phone"
    ELSE IF includes(key, Chars("email")) THEN "email"
    ELSE IF \E lit \in {"address", "street", "location", "place", "area", "city"} :
                includes(key, Chars(lit))
         THEN "address"
    ELSE IF \E lit \in {"post", "pin", "zip"} : includes(key, Chars(lit)) THEN "postcode"
    ELSE IF key = Chars("id") \/ endsWith(key, Chars("_id")) THEN "id"
    ELSE IF includes(key, Chars("source")) THEN "source"
    ELSE IF includes(key, Chars("assigned")) THEN "assigned"
    ELSE IF includes(key, Chars("stage")) \/ includes(key, Chars("status")) THEN "status"
    ELSE "extra"

\* the columns of a record under a rule, in the order of the record
ColumnsUnder(row, rule) ==
    {j \in DOMAIN row : RuleOf(normalizeHeader(row[j][1])) = rule}

\* the values of the columns of a record under a rule, in the order of the record
RECURSIVE ValuesUnder(_, _, _)
ValuesUnder(row, rule, j) ==
    IF j > Len(row) THEN <<>>
    ELSE IF j \in ColumnsUnder(row, rule)
         THEN <<row[j][2]>> \o ValuesUnder(row, rule, j + 1)
         ELSE ValuesUnder(row, rule, j + 1)

\* a sequence of values without its leading empty ones
RECURSIVE FromFirstNonEmpty(_)
FromFirstNonEmpty(values) ==
    IF values = <<>> THEN <<>>
    ELSE IF Head(values) = <<>> THEN FromFirstNonEmpty(Tail(values))
    ELSE values

CommaSpace == <<",", " ">>

\* the record with the column at position j moved to position p
MoveColumn(row, j, p) ==
    LET rest == [k \in 1..(Len(row) - 1) |-> IF k < j THEN row[k] ELSE row[k + 1]]
    IN  SubSeq(rest, 1, p - 1) \o <<row[j]>> \o SubSeq(rest, p, Len(rest))

\* the mapped rows the claims on the location are about: rows of a record with
\* address fragments and one postcode column
HasAddress(row) ==
    /\ ColumnsUnder(row, "address") # {}
    /\ Cardinality(ColumnsUnder(row, "postcode")) = 1

\* C21 as stated: the location of a record with address fragments and a
\* postcode column is the comma-and-space join of the values of all fragment
\* columns, in order, followed by the value of the postcode column.
C21_Original ==
    fetchPc = "leads" =>
        \A i \in DOMAIN sheetRows :
            HasAddress(sheetRows[i]) =>
                GetProp(sheetLeads[i], Chars("location")) =
                    joinWith(ValuesUnder(sheetRows[i], "address", 1)
                                 \o ValuesUnder(sheetRows[i], "postcode", 1),
                             CommaSpace)

\* C21: the location of a record with address fragments and a postcode column
\* is the comma-and-space join of the values of the fragment columns from the
\* first non-empty one on, in order, followed by the value of the postcode
\* column as the last segment when that value is not empty; and it is the same
\* wherever the postcode column stands in the record.
C21_Location ==
    fetchPc = "leads" =>
        \A i \in DOMAIN sheetRows :
            HasAddress(sheetRows[i]) =>
                LET row == sheetRows[i]
                    joined == joinWith(FromFirstNonEmpty(ValuesUnder(row, "address", 1)),
                                       CommaSpace)
                    postcode == ValuesUnder(row, "postcode", 1)[1]
                    at == CHOOSE j \in ColumnsUnder(row, "postcode") : TRUE
                IN  /\ GetProp(sheetLeads[i], Chars("location")) =
                           IF postcode = <<>> THEN joined
                           ELSE IF joined = <<>> THEN postcode
                           ELSE joined \o CommaSpace \o postcode
                    /\ \A p \in DOMAIN row :
                           GetProp(mapSheetRowToLead(MoveColumn(row, at, p)),
                                   Chars("location"))
                               = GetProp(sheetLeads[i], Chars("location"))

\* the postcode column comes first and its value is appended last, after two
\* fragments
C21_Witness ==
    /\ fetchPc = "leads"
    /\ Len(sheetRows) = 1
    /\ Len(sheetRows[1]) = 3
    /\ ColumnsUnder(sheetRows[1], "postcode") = {1}
    /\ ColumnsUnder(sheetRows[1], "address") = {2, 3}
    /\ sheetRows[1][1][2] = <<"B">>
    /\ sheetRows[1][2][2] = <<"A">>
    /\ sheetRows[1][3][2] = <<"A">>
    /\ GetProp(sheetLeads[1], Chars("location")) = <<"A", ",", " ", "A", ",", " ", "B">>

\* the mapped field a column under a rule is written to
FieldOf(rule, key) ==
    CASE rule = "name" -> Chars("customer_name")
      [] rule = "phone" -> Chars("customer_phone")
      [] rule = "email" -> Chars("customer_email")
      [] rule = "address" -> Chars("location")
      [] rule = "postcode" -> Chars("location")
      [] rule = "id" -> Chars("id")
      [] rule = "source" -> Chars("source")
      [] rule = "assigned" -> Chars("assigned_to")
      [] rule = "status" -> Chars("status")
      [] OTHER -> key

CanonicalFields ==
    {Chars(lit) : lit \in {"customer_name", "customer_phone", "customer_email", "location",
                           "id", "source", "assigned_to", "status"}}

\* the fields the columns of a record are written to, each column to the field
\* of its rule; a postcode column reaches the location only with a value
FieldsWritten(row) ==
    {FieldOf(RuleOf(normalizeHeader(row[j][1])), normalizeHeader(row[j][1])) :
        j \in {k \in DOMAIN row : RuleOf(normalizeHeader(row[k][1])) # "postcode"}}
    \cup
    (IF \E j \in ColumnsUnder(row, "postcode") :
            /\ row[j][2] # <<>>
            /\ \A k \in ColumnsUnder(row, "postcode") : k <= j
     THEN {Chars("location")} ELSE {})

\* the last column of a record with a normalized name
LastNamed(row, key) ==
    CHOOSE j \in DOMAIN row :
        /\ normalizeHeader(row[j][1]) = key
        /\ \A k \in DOMAIN row : normalizeHeader(row[k][1]) = key => k <= j

\* C22: the fields of a mapped row are exactly the fields its columns are
\* written to, each column under the earliest rule its normalized name
\* satisfies in the order name, phone or mobile, email, address fragment,
\* postcode, id, source, assigned, status, extra; the id is the value of the
\* last id column; an extra column is stored under its normalized name, which
\* is the name of no canonical field, with the value of the last such column.
C22_OneRule ==
    fetchPc = "leads" =>
        \A i \in DOMAIN sheetRows :
            LET row == sheetRows[i]
                mapped == sheetLeads[i]
            IN  /\ Keys(mapped) = FieldsWritten(row)
                /\ ColumnsUnder(row, "id") # {} =>
                       \E j \in ColumnsUnder(row, "id") :
                           /\ \A k \in ColumnsUnder(row, "id") : k <= j
                           /\ GetProp(mapped, Chars("id")) = row[j][2]
                /\ \A j \in ColumnsUnder(row, "extra") :
                       LET key == normalizeHeader(row[j][1])
                       IN  /\ key \notin CanonicalFields
                           /\ GetProp(mapped, key) = row[LastNamed(row, key)][2]

\* a source_id column and an email_address column: the one is the id and not
\* the source, the other the email and not a part of the location
C22_Witness ==
    /\ fetchPc = "leads"
    /\ Len(sheetRows) = 1
    /\ Len(sheetRows[1]) = 2
    /\ normalizeHeader(sheetRows[1][1][1]) = <<"s", "o", "u", "r", "c", "e", "_", "i", "d">>
    /\ normalizeHeader(sheetRows[1][2][1])
           = <<"e", "m", "a", "i", "l", "_", "a", "d", "d", "r", "e", "s", "s">>
    /\ sheetRows[1][1][2] = <<"A">>
    /\ sheetRows[1][2][2] = <<"B">>
    /\ sheetLeads[1] = << <<Chars("id"), <<"A">>>>, <<Chars("customer_email"), <<"B">>>> >>

\* ------------------------------------------------------------------------
\* Properties of the updater run row by row
\* ------------------------------------------------------------------------

\* the submissions that are completed by a step
CompletedByStep == pending \ pending'

\* the leads the rows of the running updater have made so far
MadeByRows ==
    {updater.st.log[k].ref : k \in {n \in DOMAIN updater.st.log :
                                       updater.st.log[n].kind = "new"}}

\* the rows of the running updater that resolved to a lead found one of its
\* input collection or one made by an earlier row
ResolvedInPass ==
    \A k \in DOMAIN updater.st.log :
        updater.st.log[k].kind = "match" =>
            updater.st.log[k].ref \in Range(updater.current) \cup MadeByRows

\* C23: while an updater is being run, from the index build to its return,
\* no submission is completed and the store, the arrays built so far and the
\* leads state do not change (no other pass runs or returns); a step that
\* completes a submission is taken when no updater is being run and the pass
\* that made the submission has returned its array; and every row of the
\* running updater that resolved to a lead resolved to a lead of its input
\* collection or to one made by an earlier row, never to a record written
\* into the Maps by a completion.
C23_PassAtomic ==
    [][/\ updater # NotRunning =>
             /\ CompletedByStep = {}
             /\ failed' = failed
             /\ table' = table
             /\ nextId' = nextId
             /\ updater' = NotRunning \/ (arrays' = arrays /\ leads' = leads)
             /\ updater' # NotRunning =>
                    /\ updater'.no = updater.no
                    /\ updater'.current = updater.current
       /\ CompletedByStep # {} =>
             /\ updater = NotRunning
             /\ \A task \in CompletedByStep :
                    /\ task.pass \in DOMAIN arrays
                    /\ task.pass <= lastPass.no
       /\ ResolvedInPass']_vars

\* the second row of an updater is about to be handled while the creation its
\* first row submitted is outstanding
C23_Witness ==
    /\ updater.i = 2
    /\ Len(updater.rows) >= 2
    /\ \E task \in pending : task.kind = "insert" /\ task.pass = updater.no /\ task.row = 1

\* ------------------------------------------------------------------------
\* Properties of the sync cycles: teardown, failed fetches, the initial load
\* ------------------------------------------------------------------------

\* a submission leaves the outstanding ones by its completion: it is recorded
\* as failed, or the store has created a record for it or applied its update
Settled(task) ==
    \/ task \in failed'
    \/ task.kind = "insert" /\ nextId' = nextId + 1 /\ Len(table') = Len(table) + 1
    \/ task.kind = "update" /\ table' = UpdateTable(table, task.id, task.payload)

\* C24: once the view is torn down it stays torn down, no sync cycle starts
\* (the startup timer is not pending and the count of cycles stays), no merge
\* pass runs and no submission is made; a sheet fetch that was in flight
\* ends without touching the leads state, the lead objects or the
\* submissions; and a submission that was outstanding is not dropped: it
\* leaves the outstanding ones only by its completion.
C24_TornDown ==
    [][~mounted =>
          /\ ~mounted'
          /\ ~initTimeout /\ ~initTimeout'
          /\ cycles' = cycles
          /\ lastPass' = lastPass
          /\ pending' \subseteq pending
          /\ fetching' <= fetching
          /\ fetching' < fetching =>
                 /\ leads' = leads /\ arrays' = arrays /\ heap' = heap
                 /\ pending' = pending /\ failed' = failed
          /\ \A task \in pending \ pending' : Settled(task)]_vars

\* the view was torn down while the sheet fetch of a cycle and a submission
\* of the pass of an earlier cycle were in flight
C24_Witness ==
    /\ ~mounted
    /\ fetching > 0
    /\ pending # {}
    /\ lastPass.no > 0
    /\ Len(sheet) > 0

\* a step in which a sync cycle of the mounted view ends without a merge pass
\* although the sheet has rows: its fetch failed
CycleFails ==
    /\ fetching' < fetching
    /\ lastPass' = lastPass
    /\ mounted
    /\ Len(sheet) # 0

\* C25: a cycle whose fetch fails ends without changing the leads state, the
\* lead objects, the arrays or the store and without a submission, and it
\* leaves the view mounted and the timers and the count of cycles as they are,
\* so that the next tick starts a cycle as it would have without the failure;
\* and a cycle that ends with a merge pass, whatever cycles failed before it,
\* merges the rows of the sheet into the collection that is current then and
\* makes the result the leads state.
C25_FailureAbortsCycle ==
    [][/\ CycleFails =>
             /\ fetching' = fetching - 1
             /\ UNCHANGED <<leads, arrays, maps, heap, table, nextId, pending, failed,
                            mounted, initTimeout, cycles>>
       /\ (fetching' < fetching /\ lastPass' # lastPass) =>
             /\ lastPass'.rows = sheet
             /\ lastPass'.current = arrays[leads]
             /\ leads' = lastPass'.no
             /\ arrays'[leads'] = lastPass'.out
             /\ Len(lastPass'.log) = Len(sheet)]_vars

\* two cycles of the mounted view have ended, one by a failed fetch and one by
\* a merge pass that ran after the second cycle had started and made a lead
C25_Witness ==
    /\ mounted
    /\ Len(sheet) # 0
    /\ cycles = 2
    /\ fetching = 0
    /\ lastPass.no > 0
    /\ lastPass.prev = 0
    /\ \E k \in DOMAIN Log :
          Log[k].kind = "new" /\ heap[Log[k].ref].created_at = TimeStr(2)

\* a key of the row is the key of a lead that was in the store when the view
\* was mounted
InStore(s) ==
    \E n \in DOMAIN InitialTable :
        \/ Truthy(RowSid(s)) /\ RowSid(s) = InitialTable[n].id
        \/ /\ Truthy(RowEmail(s))
           /\ RowEmail(s) = toLowerCase(InitialTable[n].customer_email)
        \/ Truthy(RowPhone(s)) /\ RowPhone(s) = InitialTable[n].customer_phone
        \/ /\ Truthy(RowNameNorm(s))
           /\ RowNameNorm(s) = normalizeName(InitialTable[n].customer_name)

\* the initial load has not failed: it is pending, or it has set the leads
\* state (its array is one of the arrays besides the first pass's)
LoadNotFailed == loading = "pending" \/ Len(arrays) > 2

\* C26: when the first merge pass has run with a configured store whose
\* initial load did not fail, every row of it that matches a lead of the
\* store met the collection the initial load had set and was not submitted
\* for creation.
C26_FirstPassAfterLoad ==
    (isSupabaseConfigured /\ lastPass.no > 0 /\ lastPass.prev = 0 /\ LoadNotFailed) =>
        \A k \in DOMAIN Log :
            InStore(Rows[k]) =>
                /\ lastPass.input # 1
                /\ ~(Log[k].kind = "new" /\ Log[k].task.kind = "insert")

\* ------------------------------------------------------------------------
\* Three sync cycles whose submissions overlap
\* ------------------------------------------------------------------------

\* one more interval tick while the store has answered none of the creations
\* of the cycles before it
OverlappingTick ==
    /\ CallStackEmpty
    /\ mounted
    /\ ~initTimeout
    /\ cycles = MaxCycles
    /\ fetching = 0
    /\ \E task \in pending : task.kind = "insert"
    /\ nextId = 0
    /\ \A task \in failed : task.kind # "insert"
    /\ cycles' = cycles + 1
    /\ fetching' = fetching + 1
    /\ UNCHANGED <<updater, fetchVars, isSupabaseConfigured, sheet, table, nextId, heap, arrays,
                   maps, leads, loading, mounted, initTimeout, pending, failed, lastPass>>

NextOverlap ==
    \/ FetchDataDone
    \/ FetchDataThrows
    \/ InitTimeoutFires
    \/ IntervalTick
    \/ OverlappingTick
    \/ SheetFetchFails
    \/ SheetFetchIgnored
    \/ SheetFetchMerges
    \/ Unmount
    \/ InsertDone
    \/ InsertFails
    \/ UpdateDone
    \/ UpdateFails

\* three sync cycles over a sheet of three rows, the third started while
\* creations are outstanding
SpecOverlap == InitRecur /\ [][NextOverlap]_vars

\* the creations that were outstanding when the most recent pass began, whose
\* placeholder was in the collection the pass began with
OutstandingFor(k) ==
    {task \in lastPass.pending0 :
        /\ task.kind = "insert"
        /\ task.row = k
        /\ task.lead \in Range(lastPass.current)}

\* C27: when a merge pass runs while a creation submitted for a row by the
\* pass of an earlier cycle is outstanding and the placeholder of that
\* creation is in the collection the pass begins with, the row resolves to a
\* lead and no second creation is submitted for it.
C27_NoSecondCreation ==
    lastPass.no > 0 =>
        \A k \in DOMAIN Rows :
            OutstandingFor(k) # {} =>
                /\ Log[k].kind = "match"
                /\ Log[k].task.kind # "insert"

\* ------------------------------------------------------------------------
\* The identifier of a merged lead
\* ------------------------------------------------------------------------

\* C28: merging a matched row never changes the identifier of the existing
\* lead: after the merge the lead has the identifier it had when it was
\* resolved, and the update submitted for the row is keyed by that
\* identifier, also when the row was matched by email, phone or name and
\* carries a different id value of its own.
C28_IdentifierKept ==
    \A k \in DOMAIN Log :
        Log[k].kind = "match" =>
            /\ Get(Log[k].heap[Log[k].ref], "id") = Get(HeapBefore(k)[Log[k].ref], "id")
            /\ Log[k].task.kind = "update" =>
                  Log[k].task.id = Get(HeapBefore(k)[Log[k].ref], "id")

\* ------------------------------------------------------------------------
\* Values a merge may replace
\* ------------------------------------------------------------------------

\* the fields of a lead that a merge is said to protect
ProtectedFields ==
    {"customer_name", "customer_phone", "customer_email", "location", "status"}

\* C29: merging a matched row never replaces a non-empty value of
\* customer_name, customer_phone, customer_email, location or status on the
\* existing lead with an empty value: a column that is present in the sheet
\* but empty for that row leaves the lead's field as it was.
C29_NoBlanking ==
    \A k \in DOMAIN Log :
        Log[k].kind = "match" =>
            \A f \in ProtectedFields :
                Truthy(Get(HeapBefore(k)[Log[k].ref], f)) =>
                    Truthy(Get(Log[k].heap[Log[k].ref], f))

\* ------------------------------------------------------------------------
\* The leads one row touches
\* ------------------------------------------------------------------------

\* the leads that existed before row k and differ after it
ChangedBy(k) == {r \in DOMAIN HeapBefore(k) : Log[k].heap[r] # HeapBefore(k)[r]}

\* C30: each identifiable row modifies at most one lead of the collection:
\* when its keys hit different leads, or when several existing leads share
\* the key it matched on, only the lead it resolved to is merged and every
\* other lead is left unchanged; a row that creates a lead changes none of
\* the existing ones.
C30_OneLeadPerRow ==
    \A k \in DOMAIN Log :
        /\ Len(Log[k].heap) >= Len(HeapBefore(k))
        /\ Log[k].kind = "match" => ChangedBy(k) \subseteq {Log[k].ref}
        /\ Log[k].kind # "match" => ChangedBy(k) = {}

\* a row whose email hits one stored lead and whose phone hits another was
\* merged into the first, which it changed
C30_Witness ==
    \E k \in DOMAIN Log :
        /\ Log[k].kind = "match"
        /\ Log[k].via = "email"
        /\ PhoneHit(k)
        /\ Log[k].ref \notin PhoneHolders(Rows[k])
        /\ ChangedBy(k) = {Log[k].ref}

====
